---- MODULE Spec2Model ----
(***************************************************************************)
(* Feedback-Copilot: the retrieval-fusion-and-grounded-generation pipeline *)
(* (hybrid search with reciprocal rank fusion, relevance filter, answer    *)
(* composer with guardrails), the settings page that exposes the           *)
(* guardrail switches, the PII anonymizer, and ingestion with the upload   *)
(* page and the index snapshots that queries read.                         *)
(*                                                                         *)
(* Scores are exact rationals <<numerator, denominator>>; the Python code  *)
(* computes them in floating point, which agrees with the exact value on   *)
(* every comparison made here (1/66 >= 0.015 > 1/67).                      *)
(***************************************************************************)
EXTENDS Integers, Sequences, FiniteSets, TLC

VARIABLES
    settings,         \* the settings the backend holds (PUT /api/settings/)
    corpus,           \* document ids of the snapshot the query reads
    qcount,           \* number of queries started so far
    pc,               \* position of the current query in the pipeline
    lexDone,          \* lexical retrieval of the current query completed
    semDone,          \* semantic retrieval of the current query completed
    lexical_ranked,   \* ranked candidates of the lexical index
    semantic_ranked,  \* ranked candidates of the semantic index
    fused,            \* output of fuse
    evidence,         \* output of the relevance filter (sources)
    genCalls,         \* calls to the generation service in the current query
    generated,        \* text returned by the generation service
    answer,           \* the Answer returned to the caller
    error,            \* the pipeline error surfaced to the caller
    filter_max_results,  \* the max_results a caller passes to filter
    anon_input,       \* the record handed to anonymize
    anonymized,       \* what anonymize returned for it
    again,            \* what anonymize returned for the anonymized text
    runs,             \* ingestion runs started so far
    index,            \* the index snapshot that queries read
    staged,           \* the index an ingestion run is building
    batch,            \* the raw records of the ingestion run
    ingest_pc,        \* position of the ingestion run
    results,          \* what the core returned per record of the run
    anonymize_log,    \* every call of anonymize made by ingestion
    published,        \* the snapshots published so far
    uploading,        \* the upload page waits for the response
    result,           \* the result the upload page shows
    piiMatches,       \* the PII preview of the upload page
    rankings,         \* the ranks of one document in the two methods' lists
    chat,             \* the chat page, its requests and the stored history
    exportPage,       \* the export page, its PDF request and the last download
    feedbacksPage,    \* the feedback list page
    progress,         \* the progress bar of the upload page
    response          \* what the upload page got for its request

\* the state of the components when they are exercised on their own
\* the state of ingestion: the backend's run and the upload page
ingestVars == <<runs, index, staged, batch, ingest_pc, results, anonymize_log,
                published, uploading, result, piiMatches>>

\* the state of the parts that the pipeline and ingestion do not touch
pageVars == <<rankings, chat, exportPage, feedbacksPage>>

\* the progress of an upload, which the backend does not touch
uploadVars == <<progress, response>>

partVars == <<pageVars, uploadVars>>

componentVars == <<filter_max_results, anon_input, anonymized, again,
                   ingestVars, partVars>>

vars == <<settings, corpus, qcount, pc, lexDone, semDone, lexical_ranked,
          semantic_ranked, fused, evidence, genCalls, generated, answer,
          error, componentVars>>

queryVars == <<corpus, qcount, pc, lexDone, semDone, lexical_ranked,
               semantic_ranked, fused, evidence, genCalls, generated, answer,
               error>>

\* what the chat page leaves alone
notChat == <<settings, queryVars, filter_max_results, anon_input, anonymized,
             again, ingestVars, rankings, exportPage, feedbacksPage,
             uploadVars>>

\* what the export page leaves alone
notExport == <<settings, queryVars, filter_max_results, anon_input,
               anonymized, again, ingestVars, rankings, chat, feedbacksPage,
               uploadVars>>

\* what the feedback list page leaves alone
notFeedbacks == <<settings, queryVars, filter_max_results, anon_input,
                  anonymized, again, ingestVars, rankings, chat, exportPage,
                  uploadVars>>

---------------------------------------------------------------------------
\* Bounds of the model

MaxScore == 2       \* raw method scores are 1..MaxScore
MaxQueries == 2     \* queries asked one after the other

\* Program constants

K == 60
top_k == 10
OverFetch == 2
MinRelevanceNum == 15
MinRelevanceDen == 1000

\* Document ids are strings of digits: "1", "10", "2" (so that the
\* lexicographic order differs from the numeric one).
Docs == {<<1>>, <<1, 0>>, <<2>>}

Scores == 1..MaxScore

---------------------------------------------------------------------------
\* Exact rational arithmetic on <<numerator, denominator>>, denominator > 0

RatAdd(a, b) == <<a[1] * b[2] + b[1] * a[2], a[2] * b[2]>>
RatEq(a, b) == a[1] * b[2] = b[1] * a[2]
RatLess(a, b) == a[1] * b[2] < b[1] * a[2]
RatGeq(a, b) == a[1] * b[2] >= b[1] * a[2]

Min(a, b) == IF a <= b THEN a ELSE b

\* s < t in the lexicographic order of strings
RECURSIVE LexLess(_, _)
LexLess(s, t) ==
    IF t = <<>> THEN FALSE
    ELSE IF s = <<>> THEN TRUE
    ELSE IF Head(s) # Head(t) THEN Head(s) < Head(t)
    ELSE LexLess(Tail(s), Tail(t))

Ids(list) == {list[i].document_id : i \in DOMAIN list}

---------------------------------------------------------------------------
\* Retrieval

\* A ranked list: distinct documents, best score first.
IsRanked(r) ==
    /\ \A i, j \in DOMAIN r : i # j => r[i].document_id # r[j].document_id
    /\ \A i \in 1..(Len(r) - 1) : r[i].method_score >= r[i + 1].method_score

\* the ranked lists over each set of documents, at most top_k * 2 long
RankedListsOf ==
    [S \in SUBSET Docs |->
        UNION {{r \in [1..n -> [document_id : S, method_score : Scores]] : IsRanked(r)}
               : n \in 0..Min(top_k * OverFetch, Cardinality(S))}]

RankedLists(S) == RankedListsOf[S]

\* BM25: the documents that score for the query, best first.
LexicalResults(S) == RankedLists(S)

\* Vector search: collection.query(n_results = top_k * 2) returns the
\* n_results nearest neighbours, whatever their distance.
SemanticResults(S) ==
    {r \in RankedLists(S) : Len(r) = Min(top_k * OverFetch, Cardinality(S))}

---------------------------------------------------------------------------
\* Fusion Engine

\* the rankings, were the rank taken from the score (entries of equal
\* score share a rank: 1 + the number of entries with a higher score)
RankingsByScore(list) ==
    [d \in Ids(list) |->
        LET i == CHOOSE i \in DOMAIN list : list[i].document_id = d
            higher == {j \in DOMAIN list : list[j].method_score > list[i].method_score}
        IN [rank |-> 1 + Cardinality(higher), score |-> list[i].method_score]]

\* rankings[doc_id]["rank"]: 1-based position in the method's list
Rankings(list) ==
    [d \in Ids(list) |->
        LET i == CHOOSE i \in DOMAIN list : list[i].document_id = d
        IN [rank |-> i, score |-> list[i].method_score]]

all_candidates(vector_rankings, bm25_rankings) ==
    DOMAIN vector_rankings \cup DOMAIN bm25_rankings

\* the score, were the ranks counted from 0
rrf_score_rank_from_zero(doc_id, vector_rankings, bm25_rankings) ==
    LET s0 == <<0, 1>>
        s1 == IF doc_id \in DOMAIN vector_rankings
              THEN RatAdd(s0, <<1, K + vector_rankings[doc_id].rank - 1>>)
              ELSE s0
        s2 == IF doc_id \in DOMAIN bm25_rankings
              THEN RatAdd(s1, <<1, K + bm25_rankings[doc_id].rank - 1>>)
              ELSE s1
    IN s2

\* the score, were the second test an elif
rrf_score_elif(doc_id, vector_rankings, bm25_rankings) ==
    IF doc_id \in DOMAIN vector_rankings
    THEN <<1, K + vector_rankings[doc_id].rank>>
    ELSE IF doc_id \in DOMAIN bm25_rankings
    THEN <<1, K + bm25_rankings[doc_id].rank>>
    ELSE <<0, 1>>

rrf_score(doc_id, vector_rankings, bm25_rankings) ==
    LET s0 == <<0, 1>>
        s1 == IF doc_id \in DOMAIN vector_rankings
              THEN RatAdd(s0, <<1, K + vector_rankings[doc_id].rank>>)
              ELSE s0
        s2 == IF doc_id \in DOMAIN bm25_rankings
              THEN RatAdd(s1, <<1, K + bm25_rankings[doc_id].rank>>)
              ELSE s1
    IN s2

contributing_methods(doc_id, vector_rankings, bm25_rankings) ==
    (IF doc_id \in DOMAIN vector_rankings THEN {"semantic"} ELSE {})
    \cup (IF doc_id \in DOMAIN bm25_rankings THEN {"lexical"} ELSE {})

\* raw lexical score of a candidate; a document the lexical index did not
\* return has none and ranks below every document that has one
raw_lexical(doc_id, bm25_rankings) ==
    IF doc_id \in DOMAIN bm25_rankings THEN bm25_rankings[doc_id].score ELSE 0

\* the order, were the document ids compared as numbers
PrecedesNumericId(a, b, bm25_rankings) ==
    \/ RatLess(b.fused_score, a.fused_score)
    \/ /\ RatEq(a.fused_score, b.fused_score)
       /\ \/ raw_lexical(a.document_id, bm25_rankings)
                > raw_lexical(b.document_id, bm25_rankings)
          \/ /\ raw_lexical(a.document_id, bm25_rankings)
                    = raw_lexical(b.document_id, bm25_rankings)
             /\ \/ Len(a.document_id) < Len(b.document_id)
                \/ /\ Len(a.document_id) = Len(b.document_id)
                   /\ LexLess(a.document_id, b.document_id)

\* a comes before b in the fused output
Precedes(a, b, bm25_rankings) ==
    \/ RatLess(b.fused_score, a.fused_score)
    \/ /\ RatEq(a.fused_score, b.fused_score)
       /\ \/ raw_lexical(a.document_id, bm25_rankings)
                > raw_lexical(b.document_id, bm25_rankings)
          \/ /\ raw_lexical(a.document_id, bm25_rankings)
                    = raw_lexical(b.document_id, bm25_rankings)
             /\ LexLess(a.document_id, b.document_id)

RECURSIVE SortCandidates(_, _)
SortCandidates(S, bm25_rankings) ==
    IF S = {} THEN <<>>
    ELSE LET first == CHOOSE x \in S :
                        \A y \in S \ {x} : Precedes(x, y, bm25_rankings)
         IN <<first>> \o SortCandidates(S \ {first}, bm25_rankings)

\* the RRF loop over all_candidates and the sort of its result
rank_fusion(vector_rankings, bm25_rankings) ==
    LET candidates ==
            {[document_id |-> d,
              fused_score |-> rrf_score(d, vector_rankings, bm25_rankings),
              contributing_methods |->
                  contributing_methods(d, vector_rankings, bm25_rankings)]
             : d \in all_candidates(vector_rankings, bm25_rankings)}
    IN SortCandidates(candidates, bm25_rankings)

fuse(lexical, semantic) == rank_fusion(Rankings(semantic), Rankings(lexical))

---------------------------------------------------------------------------
\* Relevance Filter

Take(s, n) == SubSeq(s, 1, Min(n, Len(s)))

\* the test, were the threshold rounded to two decimals (0.01)
AboveThresholdRounded(c) == RatGeq(c.fused_score, <<1, 100>>)

AboveThreshold(c) == RatGeq(c.fused_score, <<MinRelevanceNum, MinRelevanceDen>>)

EvidenceItem(c) == [document_id |-> c.document_id, fused_score |-> c.fused_score]

relevant_sources(sources) ==
    LET kept == SelectSeq(sources, AboveThreshold)
    IN [i \in DOMAIN kept |-> EvidenceItem(kept[i])]

filter(fused_candidates, max_results) ==
    Take(relevant_sources(fused_candidates), max_results)

---------------------------------------------------------------------------
\* Answer Composer

NoMarker == <<>>
RefusalPhrase == "liegt nicht vor"
FixedRefusal == "Zu dieser Frage liegen keine Informationen vor."

\* What the generator may write besides its claims: nothing, the refusal
\* phrase it was told to use, or that phrase at the start of a sentence.
Phrases == {"", "liegt nicht vor", "Liegt nicht vor"}

\* str.lower() on the phrases above
Lower(p) == IF p = "Liegt nicht vor" THEN "liegt nicht vor" ELSE p

\* A generated text: its phrase, and the citation markers [Quellen-ID] its
\* claims carry (NoMarker is in claims when some claim carries none).
Texts == [phrase : Phrases, claims : SUBSET (Docs \cup {NoMarker})]

Terminal == {"Answered", "Refused-NoEvidence", "Refused-UncitedOutput"}
Finished == Terminal \cup {"PipelineError"}

NoText == [phrase |-> "", claims |-> {}]
NoAnswer == [text |-> "", answerable |-> FALSE, citations |-> <<>>,
             conflict_flags |-> {}, state |-> "none"]

\* the unanswerable check, were it tied to the "Unanswerable Guard" switch
NoSourcesIfGuardOn(sources, s) == s.unanswerable_guard /\ sources = <<>>

\* if not sources: return {"answer": "...", "answerable": False}
NoSources(sources, s) == sources = <<>>

\* "liegt nicht vor" in answer.lower()
ContainsRefusal(text) == Lower(text.phrase) = RefusalPhrase

\* the post-processing, were the sources hidden only when the refusing
\* answer cites nothing
PostProcessSourcesUnlessCited(text, sources) ==
    IF ContainsRefusal(text) /\ text.claims \ {<<>>} = {} THEN <<>> ELSE sources

\* relevant_sources after post-processing: hidden when the answer refuses
PostProcessSources(text, sources) ==
    IF ContainsRefusal(text) THEN <<>> ELSE sources

\* the citation markers the text uses
Markers(text) == text.claims \ {NoMarker}

\* the markers in lexicographic order
RECURSIVE MarkerSeq(_)
MarkerSeq(S) ==
    IF S = {} THEN <<>>
    ELSE LET m == CHOOSE x \in S : \A y \in S \ {x} : LexLess(x, y)
         IN <<m>> \o MarkerSeq(S \ {m})

\* the resolution, were every marker of the text taken for a reference
\* without looking it up in the evidence set
ResolveCitationsUnchecked(text, sources) ==
    LET ms == MarkerSeq(Markers(text))
        item(m) ==
            IF \E i \in DOMAIN sources : sources[i].document_id = m
            THEN sources[CHOOSE i \in DOMAIN sources : sources[i].document_id = m]
            ELSE [document_id |-> m, fused_score |-> <<0, 1>>]
    IN [i \in DOMAIN ms |-> item(ms[i])]

\* the markers resolved back to the evidence items they name, in evidence
\* order; a marker that names no evidence item resolves to nothing
ResolveCitations(text, sources) ==
    LET used(e) == e.document_id \in Markers(text)
    IN SelectSeq(sources, used)

\* the guardrail, were it to look for claims without any marker only
CitationViolationUnmarkedOnly(text, sources) ==
    \/ NoMarker \in text.claims
    \/ ResolveCitations(text, sources) = <<>>

\* CitationViolation: a claim without a resolvable marker, or no citation
CitationViolation(text, sources) ==
    \/ NoMarker \in text.claims
    \/ Len(ResolveCitations(text, sources)) # Cardinality(Markers(text))
    \/ ResolveCitations(text, sources) = <<>>

\* metadata of the documents used by the conflict heuristic
Subject(d) == IF d = <<2>> THEN "navigation" ELSE "voice"
Polarity(d) == IF d = <<1>> THEN "negative" ELSE "positive"

DetectConflicts(sources) ==
    {<<a, b>> \in Ids(sources) \X Ids(sources) :
        /\ LexLess(a, b)
        /\ Subject(a) = Subject(b)
        /\ Polarity(a) # Polarity(b)}

RefusalAnswer(state, conflicts) ==
    [text |-> FixedRefusal, answerable |-> FALSE, citations |-> <<>>,
     conflict_flags |-> conflicts, state |-> state]

\* step 6 of the composer: the Answer built from the generated text
PostValidate(text, sources) ==
    IF ContainsRefusal(text)
    THEN [text |-> text, answerable |-> FALSE,
          citations |-> PostProcessSources(text, sources),
          conflict_flags |-> DetectConflicts(sources),
          state |-> "Refused-NoEvidence"]
    ELSE IF CitationViolation(text, sources)
    THEN RefusalAnswer("Refused-UncitedOutput", DetectConflicts(sources))
    ELSE [text |-> text, answerable |-> TRUE,
          citations |-> ResolveCitations(text, PostProcessSources(text, sources)),
          conflict_flags |-> DetectConflicts(sources),
          state |-> "Answered"]


---------------------------------------------------------------------------
\* Anonymizer (pii.py). A text is a sequence of one-character strings;
\* offsets count from 0 and a span is [start, end) as in Python's re.

\* the characters of the model's texts
DigitChars == {"0", "1", "2", "3", "4", "5", "6", "7", "8", "9"}
UpperChars == {"A", "B", "C", "D", "E", "F", "G", "H", "I", "J", "K", "L", "M",
               "N", "O", "P", "Q", "R", "S", "T", "U", "V", "W", "X", "Y", "Z"}
LowerChars == {"a", "b", "c", "d", "e", "f", "g", "h", "i", "j", "k", "l", "m",
               "n", "o", "p", "q", "r", "s", "t", "u", "v", "w", "x", "y", "z"}
Umlauts == {"Ä", "Ö", "Ü"}
\* \w
WordChars == DigitChars \cup UpperChars \cup LowerChars \cup Umlauts \cup {"_"}
\* [\s\-]
Separators == {" ", "-"}

\* one element of a pattern: a character class with its quantifier
\* {min,max}, or {min,} when more is TRUE
Rep(class, min, max) == [class |-> class, min |-> min, max |-> max, more |-> FALSE]
Many(class, min) == [class |-> class, min |-> min, max |-> min, more |-> TRUE]
Lit(c) == Rep({c}, 1, 1)
Opt(class) == Rep(class, 0, 1)

\* the tail of phone_de after the country code: [\s\-]?(?:\d{2,4})[\s\-]?\d{3,8}
PhoneTail ==
    <<Opt(Separators), Rep(DigitChars, 2, 4), Opt(Separators),
      Rep(DigitChars, 3, 8)>>

\* the registered detectors in their order; each is the alternatives of
\* its regular expression and whether it is enclosed in \b ... \b
Kinds == <<"email", "phone_de", "plate_de", "vin", "date">>

patterns ==
    [email |->
        [bounded |-> TRUE,
         alternatives |->
            <<<<Many(UpperChars \cup LowerChars \cup DigitChars
                        \cup {".", "_", "%", "+", "-"}, 1),
                Lit("@"),
                Many(UpperChars \cup LowerChars \cup DigitChars \cup {".", "-"}, 1),
                Lit("."),
                Many(UpperChars \cup LowerChars \cup {"|"}, 2)>>>>],
     phone_de |->
        [bounded |-> TRUE,
         alternatives |->
            <<<<Lit("+"), Lit("4"), Lit("9")>> \o PhoneTail,
              <<Lit("0"), Lit("0"), Lit("4"), Lit("9")>> \o PhoneTail,
              <<Lit("0")>> \o PhoneTail>>],
     plate_de |->
        [bounded |-> TRUE,
         alternatives |->
            <<<<Rep(UpperChars \cup Umlauts, 1, 3), Opt(Separators),
                Rep(UpperChars, 1, 2), Opt(Separators),
                Rep(DigitChars, 1, 4), Opt({"E", "H"})>>>>],
     vin |->
        [bounded |-> TRUE,
         alternatives |->
            <<<<Rep((UpperChars \ {"I", "O", "Q"}) \cup DigitChars, 17, 17)>>>>],
     date |->
        [bounded |-> FALSE,
         alternatives |->
            <<<<Rep(DigitChars, 1, 2), Lit("."), Rep(DigitChars, 1, 2),
                Lit("."), Rep(DigitChars, 2, 4)>>>>]]

\* the replacement tags
Tag ==
    [email |-> <<"[", "E", "M", "A", "I", "L", "]">>,
     phone_de |-> <<"[", "T", "E", "L", "E", "F", "O", "N", "]">>,
     plate_de |-> <<"[", "K", "E", "N", "N", "Z", "E", "I", "C", "H", "E", "N", "]">>,
     vin |-> <<"[", "V", "I", "N", "]">>,
     date |-> <<"[", "D", "A", "T", "U", "M", "]">>]

IsWordAt(t, j) == j \in DOMAIN t /\ t[j] \in WordChars

\* \b before the character at position j (1-based)
Boundary(t, j) == IsWordAt(t, j - 1) # IsWordAt(t, j)

\* the number of characters of class at positions j, j + 1, ...
RECURSIVE RunLen(_, _, _)
RunLen(class, t, j) ==
    IF j \in DOMAIN t /\ t[j] \in class THEN 1 + RunLen(class, t, j + 1) ELSE 0

SetMax(S) == CHOOSE n \in S : \A m \in S : m <= n

\* Matching of the elements from position j on, as the backtracking
\* matcher of re does it: each quantifier takes the most characters for
\* which the rest of the pattern still matches. The position after the
\* match, or 0 when there is none.
RECURSIVE MatchStages(_, _, _, _)
MatchStages(stages, t, j, bounded) ==
    IF stages = <<>>
    THEN IF bounded => Boundary(t, j) THEN j ELSE 0
    ELSE LET st == Head(stages)
             run == RunLen(st.class, t, j)
             hi == IF st.more THEN run ELSE Min(run, st.max)
             ok == {n \in st.min..hi :
                       MatchStages(Tail(stages), t, j + n, bounded) # 0}
         IN IF ok = {} THEN 0
            ELSE MatchStages(Tail(stages), t, j + SetMax(ok), bounded)

\* the first alternative that matches at position i decides
RECURSIVE MatchAlternatives(_, _, _, _)
MatchAlternatives(alts, t, i, bounded) ==
    IF alts = <<>> THEN 0
    ELSE LET e == MatchStages(Head(alts), t, i, bounded)
         IN IF e # 0 THEN e ELSE MatchAlternatives(Tail(alts), t, i, bounded)

\* re.match of the pattern of kind at position i
MatchAt(kind, t, i) ==
    IF patterns[kind].bounded /\ ~Boundary(t, i) THEN 0
    ELSE MatchAlternatives(patterns[kind].alternatives, t, i,
                           patterns[kind].bounded)

\* Pseudonym. SHA-256 is stood in for by a small deterministic digest of
\* the same shape: a hexdigest of HexDigestLen characters that depends on
\* every character of the value and on nothing else.
Chars ==
    <<"0", "1", "2", "3", "4", "5", "6", "7", "8", "9",
      "A", "B", "C", "D", "E", "F", "G", "H", "I", "J", "K", "L", "M",
      "N", "O", "P", "Q", "R", "S", "T", "U", "V", "W", "X", "Y", "Z",
      "a", "b", "c", "d", "e", "f", "g", "h", "i", "j", "k", "l", "m",
      "n", "o", "p", "q", "r", "s", "t", "u", "v", "w", "x", "y", "z",
      "Ä", "Ö", "Ü", "_", " ", "-", ".", "@", "+", "%", "|", "[", "]",
      ":", ",">>
HexDigits ==
    <<"0", "1", "2", "3", "4", "5", "6", "7", "8", "9",
      "a", "b", "c", "d", "e", "f">>
HexDigestLen == 64
PseudonymLen == 16

\* value.encode(): the code of a character
encode(c) == CHOOSE i \in DOMAIN Chars : Chars[i] = c

RECURSIVE Absorb(_, _)
Absorb(h, value) ==
    IF value = <<>> THEN h
    ELSE Absorb((h * 31 + encode(Head(value))) % (2 ^ 16), Tail(value))

hexdigest(value) ==
    LET h == Absorb(7, value)
    IN [i \in 1..HexDigestLen |->
           HexDigits[(((h \div (16 ^ ((i - 1) % 4))) + i * h) % 16) + 1]]

\* the digest, were it salted with a value drawn anew in every run
HashSaltedPerRun(value) ==
    SubSeq(hexdigest(<<Chars[runs + 1]>> \o value), 1, PseudonymLen)

_hash(value) == SubSeq(hexdigest(value), 1, PseudonymLen)

PIIMatch(kind, t, start, end) ==
    [kind |-> kind, start |-> start, end |-> end,
     original_value |-> SubSeq(t, start + 1, end),
     replacement_token |-> Tag[kind],
     pseudonym |-> _hash(SubSeq(t, start + 1, end))]

\* re.finditer: the matches of one detector from position pos on, left to
\* right, each search resuming where the last match ended
RECURSIVE finditer(_, _, _)
finditer(kind, t, pos) ==
    IF pos > Len(t) THEN <<>>
    ELSE LET e == MatchAt(kind, t, pos)
         IN IF e # 0
            THEN <<PIIMatch(kind, t, pos - 1, e - 1)>> \o finditer(kind, t, e)
            ELSE finditer(kind, t, pos + 1)

\* the matches of all detectors, in the order of the detectors
RECURSIVE DetectFrom(_, _)
DetectFrom(k, t) ==
    IF k > Len(Kinds) THEN <<>>
    ELSE finditer(Kinds[k], t, 1) \o DetectFrom(k + 1, t)

Detect(t) == DetectFrom(1, t)

\* "fewer wildcard characters": the number of character classes of the
\* pattern that are not a single literal character
Wildcards(kind) ==
    LET alt == patterns[kind].alternatives[Len(patterns[kind].alternatives)]
    IN Cardinality({i \in DOMAIN alt : Cardinality(alt[i].class) > 1})

KindIndex(kind) == CHOOSE k \in DOMAIN Kinds : Kinds[k] = kind

\* the order in which overlapping matches win: the earliest start, then the
\* more specific pattern, then the earlier detector
Wins(m, n) ==
    \/ m.start < n.start
    \/ /\ m.start = n.start
       /\ \/ Wildcards(m.kind) < Wildcards(n.kind)
          \/ /\ Wildcards(m.kind) = Wildcards(n.kind)
             /\ KindIndex(m.kind) < KindIndex(n.kind)

\* the matches that start earliest, losers included, by that order
RECURSIVE SortMatches(_)
SortMatches(S) ==
    IF S = {} THEN <<>>
    ELSE LET m == CHOOSE m \in S : \A n \in S \ {m} : Wins(m, n)
         IN <<m>> \o SortMatches(S \ {m})

\* every match applied, overlapping or not
ResolveNothing(sorted, last_end) == sorted

\* overlap resolution: a match is kept unless it overlaps a kept one
RECURSIVE Resolve(_, _)
Resolve(sorted, last_end) ==
    IF sorted = <<>> THEN <<>>
    ELSE IF Head(sorted).start >= last_end
         THEN <<Head(sorted)>> \o Resolve(Tail(sorted), Head(sorted).end)
         ELSE Resolve(Tail(sorted), last_end)

\* the single pass over the original offsets
RECURSIVE Substitute(_, _, _)
Substitute(t, kept, cursor) ==
    IF kept = <<>> THEN SubSeq(t, cursor + 1, Len(t))
    ELSE SubSeq(t, cursor + 1, Head(kept).start)
             \o Head(kept).replacement_token
             \o Substitute(t, Tail(kept), Head(kept).end)

Range(seq) == {seq[i] : i \in DOMAIN seq}

\* the input records: a text, or something that is no text
TextRecord(t) == [type |-> "str", value |-> t]
NonText == [type |-> "bytes", value |-> <<>>]

\* anonymize(raw_text) -> (anonymized_text, matches)
anonymize(raw_text) ==
    IF raw_text.type # "str"
    THEN [anonymized_text |-> <<>>, matches |-> <<>>, error |-> "InvalidInput"]
    ELSE LET kept == Resolve(SortMatches(Range(Detect(raw_text.value))), 0)
         IN [anonymized_text |-> Substitute(raw_text.value, kept, 0),
             matches |-> kept, error |-> "none"]

\* no result yet
Pending == [anonymized_text |-> <<>>, matches |-> <<>>, error |-> "pending"]

----------------------------------------------------------------------------
\* Chat page (app/chat/page.tsx). chat holds the page's state (messages,
\* input, loading, history, selectedHistoryIndex), the history the backend
\* stores, and the requests of the page that are in flight.

MaxSubmits == 2     \* questions submitted on the page

null == -1          \* selectedHistoryIndex: no entry selected

\* what a user types: nothing, a blank, an answerable and an unanswerable
\* question
Inputs == {<<>>, <<" ">>, <<"a">>, <<"b">>}

RECURSIVE TrimStart(_)
TrimStart(s) == IF s # <<>> /\ Head(s) = " " THEN TrimStart(Tail(s)) ELSE s

Reversed(s) == [i \in 1..Len(s) |-> s[Len(s) + 1 - i]]

\* String.prototype.trim
trim(s) == Reversed(TrimStart(Reversed(TrimStart(s))))

ConnectionError == "Fehler bei der Verbindung zum Backend."

\* a question asked in an earlier session
OldQuestion == <<"c">>

\* POST /api/chat/: the Answer of the backend to a question
ChatAnswer(question) ==
    IF trim(question) \in {<<"a">>, OldQuestion}
    THEN [answer |-> "Der Sprachassistent reagiert nicht [F1]", answerable |-> TRUE]
    ELSE [answer |-> FixedRefusal, answerable |-> FALSE]

\* an entry of GET /api/chat/history; it carries no answerable field
HistoryItem(question) ==
    [question |-> question, answer |-> ChatAnswer(question).answer]

UserMessage(content) == [role |-> "user", content |-> content]

AssistantMessage(content, answerable) ==
    [role |-> "assistant", content |-> content, answerable |-> answerable]

\* the page before its first render, the stored history being h
ChatPage(h, mounting) ==
    [messages |-> <<>>, input |-> <<>>, loading |-> FALSE, history |-> <<>>,
     selectedHistoryIndex |-> null, stored |-> h, mount_fetch |-> mounting,
     requests |-> {}, submitted |-> 0]

ChatIdle == chat = ChatPage(<<>>, FALSE)

\* loadHistoryItem(item, index) on the page state c
loadHistoryItem(c, item, idx) ==
    [c EXCEPT !.messages = <<UserMessage(item.question),
                             AssistantMessage(item.answer, TRUE)>>,
              !.selectedHistoryIndex = idx]

\* fetchHistory from the response on; messages_empty is messages.length === 0
\* as the closure that called fetchHistory sees it
fetchHistory(c, data, messages_empty) ==
    LET c1 == [c EXCEPT !.history = data]
    IN IF Len(data) > 0 /\ messages_empty
       THEN loadHistoryItem(c1, data[1], 0)
       ELSE c1

\* onChange of the input field, which is disabled while loading
onChange ==
    /\ ~chat.loading
    /\ \E v \in Inputs : chat' = [chat EXCEPT !.input = v]
    /\ UNCHANGED notChat

\* handleSubmit up to the POST, were loading left as it is
handleSubmitWithoutLoading ==
    /\ trim(chat.input) # <<>>
    /\ ~chat.loading
    /\ chat.submitted < MaxSubmits
    /\ chat' = [chat EXCEPT
                  !.messages = Append(@, UserMessage(chat.input)),
                  !.input = <<>>,
                  !.submitted = @ + 1,
                  !.requests = @ \cup {[question |-> chat.input,
                                        messages_empty |-> chat.messages = <<>>,
                                        awaits |-> "chat"]}]
    /\ UNCHANGED notChat

\* handleSubmit up to the POST; the fetchHistory it will call is the one of
\* the render in which the submit happened, with that render's messages
handleSubmit ==
    /\ trim(chat.input) # <<>>
    /\ ~chat.loading
    /\ chat.submitted < MaxSubmits
    /\ chat' = [chat EXCEPT
                  !.messages = Append(@, UserMessage(chat.input)),
                  !.input = <<>>,
                  !.loading = TRUE,
                  !.submitted = @ + 1,
                  !.requests = @ \cup {[question |-> chat.input,
                                        messages_empty |-> chat.messages = <<>>,
                                        awaits |-> "chat"]}]
    /\ UNCHANGED notChat

\* the response of POST /api/chat/ arrives: the assistant message is
\* appended and fetchHistory is called; the backend has stored the exchange
\* as the newest entry
ChatResponse ==
    /\ \E r \in chat.requests :
          /\ r.awaits = "chat"
          /\ chat' = [chat EXCEPT
                        !.stored = <<HistoryItem(r.question)>> \o @,
                        !.messages =
                            Append(@, AssistantMessage(
                                          ChatAnswer(r.question).answer,
                                          ChatAnswer(r.question).answerable)),
                        !.requests = (@ \ {r})
                                        \cup {[r EXCEPT !.awaits = "history"]}]
    /\ UNCHANGED notChat

\* the POST fails: catch, then finally
ChatFailure ==
    /\ \E r \in chat.requests :
          /\ r.awaits = "chat"
          /\ chat' = [chat EXCEPT
                        !.messages =
                            Append(@, AssistantMessage(ConnectionError, FALSE)),
                        !.loading = FALSE,
                        !.requests = @ \ {r}]
    /\ UNCHANGED notChat

\* the fetchHistory of handleSubmit returns with the history, then
\* setSelectedHistoryIndex(0) and finally
HistoryResponse ==
    /\ \E r \in chat.requests :
          /\ r.awaits = "history"
          /\ chat' = [fetchHistory(chat, chat.stored, r.messages_empty) EXCEPT
                        !.selectedHistoryIndex = 0,
                        !.loading = FALSE,
                        !.requests = @ \ {r}]
    /\ UNCHANGED notChat

\* the fetchHistory of handleSubmit fails (caught inside fetchHistory)
HistoryFailure ==
    /\ \E r \in chat.requests :
          /\ r.awaits = "history"
          /\ chat' = [chat EXCEPT
                        !.selectedHistoryIndex = 0,
                        !.loading = FALSE,
                        !.requests = @ \ {r}]
    /\ UNCHANGED notChat

\* the fetchHistory of the mount effect returns; its closure is the first
\* render's, where messages is empty
MountHistoryResponse ==
    /\ chat.mount_fetch
    /\ chat' = [fetchHistory(chat, chat.stored, TRUE) EXCEPT
                  !.mount_fetch = FALSE]
    /\ UNCHANGED notChat

MountHistoryFailure ==
    /\ chat.mount_fetch
    /\ chat' = [chat EXCEPT !.mount_fetch = FALSE]
    /\ UNCHANGED notChat

\* a click on an entry of the sidebar
selectHistoryItem ==
    /\ \E i \in DOMAIN chat.history :
          chat' = loadHistoryItem(chat, chat.history[i], i - 1)
    /\ chat' # chat
    /\ UNCHANGED notChat

startNewChat ==
    /\ chat' = [chat EXCEPT !.messages = <<>>,
                            !.selectedHistoryIndex = null,
                            !.input = <<>>]
    /\ chat' # chat
    /\ UNCHANGED notChat

\* DELETE /api/chat/history; the button shows when history is not empty
clearHistory ==
    /\ chat.history # <<>>
    /\ chat' = [chat EXCEPT !.stored = <<>>,
                            !.history = <<>>,
                            !.messages = <<>>,
                            !.selectedHistoryIndex = null]
    /\ UNCHANGED notChat

----------------------------------------------------------------------------
\* Export page (app/export/page.tsx). exportPage holds the page's state
\* (format, exportType, selectedModels, ticketContent, pdfUrl, pdfLoading,
\* exported), the PDF request in flight and the file last downloaded. A
\* generated text is kept as what it was generated from and the syntax it
\* is written in.

Formats == {"json", "csv", "md", "pdf"}
ExportTypes == {"ticket", "stats"}

\* the values of the model filter: no selection (all models) or one model
ModelSelections == {{}, {"ID.4"}}

\* ticketContent === "" and pdfUrl === null
NoContent == [format |-> "", exportType |-> "", syntax |-> "", models |-> {}]

NoDownload == [extension |-> "", content |-> NoContent]

\* the text generateExport builds: the full report in the selected format,
\* the statistics as JSON or else as Markdown
TicketContent(format, exportType, models) ==
    [format |-> format, exportType |-> exportType, models |-> models,
     syntax |-> IF exportType = "ticket" THEN format
                ELSE IF format = "json" THEN "json" ELSE "md"]

\* the blob GET /api/export/pdf returns for the filters sent
PdfBlob(models) ==
    [format |-> "pdf", exportType |-> "pdf", syntax |-> "pdf", models |-> models]

ExportPageInitial ==
    [format |-> "json", exportType |-> "ticket", selectedModels |-> {},
     ticketContent |-> NoContent, pdfUrl |-> NoContent, pdfLoading |-> FALSE,
     exported |-> FALSE, pdfRequest |-> NoContent, downloaded |-> NoDownload]

ExportIdle == exportPage = ExportPageInitial

setFormat ==
    /\ \E f \in Formats \ {exportPage.format} :
          exportPage' = [exportPage EXCEPT !.format = f]
    /\ UNCHANGED notExport

setExportType ==
    /\ \E t \in ExportTypes \ {exportPage.exportType} :
          exportPage' = [exportPage EXCEPT !.exportType = t]
    /\ UNCHANGED notExport

setSelectedModels ==
    /\ \E m \in ModelSelections \ {exportPage.selectedModels} :
          exportPage' = [exportPage EXCEPT !.selectedModels = m]
    /\ UNCHANGED notExport

\* 'Generieren' with a text format selected
generateExport ==
    /\ exportPage.format # "pdf"
    /\ exportPage' =
          [exportPage EXCEPT
              !.pdfUrl = NoContent,
              !.ticketContent = TicketContent(exportPage.format,
                                              exportPage.exportType,
                                              exportPage.selectedModels)]
    /\ UNCHANGED notExport

\* 'Generieren' with PDF selected, up to the request
generatePdf ==
    /\ exportPage.format = "pdf"
    /\ exportPage.pdfRequest = NoContent
    /\ exportPage' =
          [exportPage EXCEPT
              !.pdfLoading = TRUE,
              !.ticketContent = NoContent,
              !.pdfRequest = PdfBlob(exportPage.selectedModels)]
    /\ UNCHANGED notExport

\* the PDF arrives
PdfResponse ==
    /\ exportPage.pdfRequest # NoContent
    /\ exportPage' = [exportPage EXCEPT !.pdfUrl = exportPage.pdfRequest,
                                        !.pdfLoading = FALSE,
                                        !.pdfRequest = NoContent]
    /\ UNCHANGED notExport

\* the request fails or the response is not ok
PdfFailure ==
    /\ exportPage.pdfRequest # NoContent
    /\ exportPage' = [exportPage EXCEPT !.pdfLoading = FALSE,
                                        !.pdfRequest = NoContent]
    /\ UNCHANGED notExport

\* the disabled condition of 'Herunterladen'
DownloadDisabled ==
    \/ exportPage.format # "pdf" /\ exportPage.ticketContent = NoContent
    \/ exportPage.format = "pdf" /\ exportPage.pdfUrl = NoContent

\* 'Herunterladen'
handleExport ==
    /\ ~DownloadDisabled
    /\ exportPage' =
          [exportPage EXCEPT
              !.exported = TRUE,
              !.downloaded =
                  IF exportPage.format = "pdf" /\ exportPage.pdfUrl # NoContent
                  THEN [extension |-> "pdf", content |-> exportPage.pdfUrl]
                  ELSE [extension |-> exportPage.format,
                        content |-> exportPage.ticketContent]]
    /\ exportPage' # exportPage
    /\ UNCHANGED notExport

\* setTimeout(() => setExported(false), 3000)
exportedTimeout ==
    /\ exportPage.exported
    /\ exportPage' = [exportPage EXCEPT !.exported = FALSE]
    /\ UNCHANGED notExport

----------------------------------------------------------------------------
\* Feedback list page (app/feedbacks/page.tsx). feedbacksPage holds the
\* page's state: feedbacks, filteredFeedbacks, loading, search, filterType,
\* filterModel, filterMarket, page. A change of the loaded data or of a
\* filter is followed by the effect that calls filterData.

MaxFeedbacks == 35  \* feedbacks the backend returns

itemsPerPage == 15

DigitString == <<"0", "1", "2", "3", "4", "5", "6", "7", "8", "9">>

LowerCaseLetters ==
    <<"a", "b", "c", "d", "e", "f", "g", "h", "i", "j", "k", "l", "m",
      "n", "o", "p", "q", "r", "s", "t", "u", "v", "w", "x", "y", "z">>

UpperCaseLetters ==
    <<"A", "B", "C", "D", "E", "F", "G", "H", "I", "J", "K", "L", "M",
      "N", "O", "P", "Q", "R", "S", "T", "U", "V", "W", "X", "Y", "Z">>

\* String.prototype.toLowerCase
toLowerCase(s) ==
    [i \in DOMAIN s |->
        IF \E k \in DOMAIN UpperCaseLetters : UpperCaseLetters[k] = s[i]
        THEN LowerCaseLetters[CHOOSE k \in DOMAIN UpperCaseLetters :
                                  UpperCaseLetters[k] = s[i]]
        ELSE s[i]]

\* String.prototype.includes
includes(s, part) ==
    \E i \in 0..(Len(s) - Len(part)) : SubSeq(s, i + 1, i + Len(part)) = part

\* Array.prototype.slice(from, to) with 0 <= from <= to
slice(list, from, to) == SubSeq(list, from + 1, Min(to, Len(list)))

\* no selection in a filter
NoFilter == "null"

SourceTypes == <<"voice", "touch", "error">>
VehicleModels == <<"ID.4", "Golf 8">>
Markets == <<"DE", "US">>

FeedbackTexts ==
    <<<<"N", "a", "v", "i", " ", "l", "a", "n", "g", "s", "a", "m">>,
      <<"T", "o", "u", "c", "h", " ", "h", "a", "k", "t">>,
      <<"n", "a", "v", "i", "g", "i", "e", "r", "t", " ", "f", "a", "l",
        "s", "c", "h">>,
      <<"F", "e", "h", "l", "e", "r", " ", "4">>>>

\* the i-th feedback GET /api/feedbacks/ returns
FeedbackItem(i) ==
    [id |-> <<"F", DigitString[(i \div 10) + 1], DigitString[(i % 10) + 1]>>,
     text |-> FeedbackTexts[(i % 4) + 1],
     source_type |-> SourceTypes[(i % 3) + 1],
     vehicle_model |-> VehicleModels[((i \div 2) % 2) + 1],
     market |-> Markets[((i \div 5) % 2) + 1]]

LoadedFeedbacks == [i \in 1..MaxFeedbacks |-> FeedbackItem(i)]

\* what is typed into the search field
Searches == {<<>>, <<"n", "a", "v", "i">>, <<"N", "A", "V", "I">>,
             <<"f", "1">>, <<"4">>, <<"z">>}

FeedbacksPageInitial ==
    [feedbacks |-> <<>>, filteredFeedbacks |-> <<>>, loading |-> TRUE,
     search |-> <<>>, filterType |-> NoFilter, filterModel |-> NoFilter,
     filterMarket |-> NoFilter, page |-> 1]

FeedbacksIdle == feedbacksPage = FeedbacksPageInitial

\* filterData, were the page left where it is
filterDataKeepingPage(p) ==
    LET bySearch ==
            IF p.search # <<>>
            THEN LET searchLower == toLowerCase(p.search)
                     hit(fb) == \/ includes(toLowerCase(fb.text), searchLower)
                                \/ includes(toLowerCase(fb.id), searchLower)
                 IN SelectSeq(p.feedbacks, hit)
            ELSE p.feedbacks
        byType ==
            IF p.filterType # NoFilter
            THEN LET hit(fb) == fb.source_type = p.filterType
                 IN SelectSeq(bySearch, hit)
            ELSE bySearch
        byModel ==
            IF p.filterModel # NoFilter
            THEN LET hit(fb) == fb.vehicle_model = p.filterModel
                 IN SelectSeq(byType, hit)
            ELSE byType
        byMarket ==
            IF p.filterMarket # NoFilter
            THEN LET hit(fb) == fb.market = p.filterMarket
                 IN SelectSeq(byModel, hit)
            ELSE byModel
    IN [p EXCEPT !.filteredFeedbacks = byMarket]

\* filterData on the page state p
filterData(p) == [filterDataKeepingPage(p) EXCEPT !.page = 1]

paginatedFeedbacks ==
    slice(feedbacksPage.filteredFeedbacks,
          (feedbacksPage.page - 1) * itemsPerPage,
          feedbacksPage.page * itemsPerPage)

\* Math.ceil(filteredFeedbacks.length / itemsPerPage)
totalPages ==
    (Len(feedbacksPage.filteredFeedbacks) + itemsPerPage - 1) \div itemsPerPage

\* fetchFeedbacks returns with the feedbacks
fetchFeedbacks ==
    /\ feedbacksPage.loading
    /\ feedbacksPage' = filterData([feedbacksPage EXCEPT
                                       !.feedbacks = LoadedFeedbacks,
                                       !.loading = FALSE])
    /\ UNCHANGED notFeedbacks

\* fetchFeedbacks fails or the response is not ok
fetchFeedbacksFails ==
    /\ feedbacksPage.loading
    /\ feedbacksPage' = [feedbacksPage EXCEPT !.loading = FALSE]
    /\ UNCHANGED notFeedbacks

setSearch ==
    /\ \E v \in Searches \ {feedbacksPage.search} :
          feedbacksPage' = filterData([feedbacksPage EXCEPT !.search = v])
    /\ UNCHANGED notFeedbacks

setFilterType ==
    /\ \E v \in (Range(SourceTypes) \cup {NoFilter}) \ {feedbacksPage.filterType} :
          feedbacksPage' = filterData([feedbacksPage EXCEPT !.filterType = v])
    /\ UNCHANGED notFeedbacks

\* the options are the models of the loaded feedbacks
setFilterModel ==
    /\ \E v \in ({feedbacksPage.feedbacks[i].vehicle_model :
                      i \in DOMAIN feedbacksPage.feedbacks} \cup {NoFilter})
                 \ {feedbacksPage.filterModel} :
          feedbacksPage' = filterData([feedbacksPage EXCEPT !.filterModel = v])
    /\ UNCHANGED notFeedbacks

setFilterMarket ==
    /\ \E v \in ({feedbacksPage.feedbacks[i].market :
                      i \in DOMAIN feedbacksPage.feedbacks} \cup {NoFilter})
                 \ {feedbacksPage.filterMarket} :
          feedbacksPage' = filterData([feedbacksPage EXCEPT !.filterMarket = v])
    /\ UNCHANGED notFeedbacks

\* the Pagination control, shown when totalPages > 1
setPage ==
    /\ totalPages > 1
    /\ \E n \in (1..totalPages) \ {feedbacksPage.page} :
          feedbacksPage' = [feedbacksPage EXCEPT !.page = n]
    /\ UNCHANGED notFeedbacks

\* the progress bar of the upload page (app/ingest/page.tsx)
ProgressStep == 10
ProgressCap == 90
ProgressDone == 100

\* no upload has been started
UploadIdle ==
    /\ progress = 0
    /\ response = "none"

\* no ranks given
NoRankings == [vector |-> <<>>, bm25 |-> <<>>]

\* the parts exercised on their own are at rest
PartsIdle ==
    /\ rankings = NoRankings
    /\ ChatIdle
    /\ ExportIdle
    /\ FeedbacksIdle
    /\ UploadIdle

\* the anonymizer has not been called
AnonymizerIdle ==
    /\ anon_input = TextRecord(<<>>)
    /\ anonymized = Pending
    /\ again = Pending

\* Index snapshots: the anonymized text of each document, by document id
NoIndex == [valid |-> FALSE, docs |-> <<>>]
Snapshot(docs) == [valid |-> TRUE, docs |-> docs]

\* the texts of the raw records, by document id
SampleOf(d) ==
    IF d = <<1>> THEN <<"a", "@", "b", ".", "d", "e">>
    ELSE IF d = <<1, 0>>
    THEN <<"x", " ", "a", "@", "b", ".", "d", "e">>
    ELSE <<" ", "x">>

\* the snapshot of the documents S after their ingestion
SnapshotOf(S) ==
    Snapshot([d \in S |-> anonymize(TextRecord(SampleOf(d))).anonymized_text])

NoResult == [success |-> FALSE, processed |-> 0, shown |-> FALSE]

\* no ingestion run has been started; the index is the given one
IngestIdle(ix) ==
    /\ runs = 0
    /\ index = ix
    /\ staged = <<>>
    /\ batch = <<>>
    /\ ingest_pc = "idle"
    /\ results = <<>>
    /\ anonymize_log = <<>>
    /\ published = IF ix.valid THEN {ix} ELSE {}
    /\ uploading = FALSE
    /\ result = NoResult
    /\ piiMatches = <<>>

---------------------------------------------------------------------------
\* Settings page

DefaultSettings ==
    [citation_required |-> TRUE, unanswerable_guard |-> TRUE,
     confliction_detection |-> TRUE]

\* the values the three guardrail switches of the page can be set to
SettingsRecords ==
    [citation_required : BOOLEAN, unanswerable_guard : BOOLEAN,
     confliction_detection : BOOLEAN]

\* PUT /api/settings/ with the page's settings; the request may fail
handleSave ==
    /\ \E s \in SettingsRecords, ok \in BOOLEAN :
          settings' = IF ok THEN s ELSE settings
    /\ UNCHANGED <<queryVars, componentVars>>

\* POST /api/settings/reset
handleReset ==
    /\ \E ok \in BOOLEAN :
          settings' = IF ok THEN DefaultSettings ELSE settings
    /\ UNCHANGED <<queryVars, componentVars>>

---------------------------------------------------------------------------
\* ask(question): one query through the pipeline

\* the start of a query, were a missing index read as an empty one
AskWithoutIndexCheck ==
    /\ pc \in {"idle"} \cup Finished
    /\ qcount < MaxQueries
    /\ qcount' = qcount + 1
    /\ corpus' = DOMAIN index.docs
    /\ pc' = "retrieving"
    /\ error' = "none"
    /\ lexDone' = FALSE
    /\ semDone' = FALSE
    /\ lexical_ranked' = <<>>
    /\ semantic_ranked' = <<>>
    /\ fused' = <<>>
    /\ evidence' = <<>>
    /\ genCalls' = 0
    /\ generated' = NoText
    /\ answer' = NoAnswer
    /\ UNCHANGED <<componentVars, settings>>

\* The query reads the snapshot that is published when it starts, for all
\* of its lookups; without a valid snapshot it fails at once.
Ask ==
    /\ pc \in {"idle"} \cup Finished
    /\ qcount < MaxQueries
    /\ qcount' = qcount + 1
    /\ IF index.valid
       THEN /\ corpus' = DOMAIN index.docs
            /\ pc' = "retrieving"
            /\ error' = "none"
       ELSE /\ corpus' = {}
            /\ pc' = "PipelineError"
            /\ error' = "IndexUnavailable"
    /\ lexDone' = FALSE
    /\ semDone' = FALSE
    /\ lexical_ranked' = <<>>
    /\ semantic_ranked' = <<>>
    /\ fused' = <<>>
    /\ evidence' = <<>>
    /\ genCalls' = 0
    /\ generated' = NoText
    /\ answer' = NoAnswer
    /\ UNCHANGED <<componentVars, settings>>

\* the lexical lookup, were it to read the index as it is at that moment
LexicalSearchLive ==
    /\ pc = "retrieving"
    /\ ~lexDone
    /\ \E r \in LexicalResults(DOMAIN index.docs) : lexical_ranked' = r
    /\ lexDone' = TRUE
    /\ UNCHANGED <<componentVars, settings, corpus, qcount, pc, semDone, semantic_ranked,
                   fused, evidence, genCalls, generated, answer, error>>

LexicalSearch ==
    /\ pc = "retrieving"
    /\ ~lexDone
    /\ \E r \in LexicalResults(corpus) : lexical_ranked' = r
    /\ lexDone' = TRUE
    /\ UNCHANGED <<componentVars, settings, corpus, qcount, pc, semDone, semantic_ranked,
                   fused, evidence, genCalls, generated, answer, error>>

SemanticSearch ==
    /\ pc = "retrieving"
    /\ ~semDone
    /\ \E r \in SemanticResults(corpus) : semantic_ranked' = r
    /\ semDone' = TRUE
    /\ UNCHANGED <<componentVars, settings, corpus, qcount, pc, lexDone, lexical_ranked,
                   fused, evidence, genCalls, generated, answer, error>>

\* the embedding service fails: the query aborts
SemanticSearchFails ==
    /\ pc = "retrieving"
    /\ ~semDone
    /\ pc' = "PipelineError"
    /\ error' = "EmbeddingServiceError"
    /\ lexDone' = FALSE
    /\ lexical_ranked' = <<>>
    /\ UNCHANGED <<componentVars, settings, corpus, qcount, semDone, semantic_ranked, fused,
                   evidence, genCalls, generated, answer>>

\* fusion, were it to start on the lexical list alone
FuseWithoutJoin ==
    /\ pc = "retrieving"
    /\ lexDone
    /\ fused' = fuse(lexical_ranked, semantic_ranked)
    /\ pc' = "fused"
    /\ UNCHANGED <<componentVars, settings, corpus, qcount, lexDone, semDone, lexical_ranked,
                   semantic_ranked, evidence, genCalls, generated, answer,
                   error>>

Fuse ==
    /\ pc = "retrieving"
    /\ lexDone
    /\ semDone
    /\ fused' = fuse(lexical_ranked, semantic_ranked)
    /\ pc' = "fused"
    /\ UNCHANGED <<componentVars, settings, corpus, qcount, lexDone, semDone, lexical_ranked,
                   semantic_ranked, evidence, genCalls, generated, answer,
                   error>>

Filter ==
    /\ pc = "fused"
    /\ evidence' = filter(fused, top_k)
    /\ pc' = "filtered"
    /\ UNCHANGED <<componentVars, settings, corpus, qcount, lexDone, semDone, lexical_ranked,
                   semantic_ranked, fused, genCalls, generated, answer, error>>

\* the composer, were it to ask the generator again after an uncited output
ComposeWithRetry ==
    /\ pc \in {"filtered", "Refused-UncitedOutput"}
    /\ IF NoSources(evidence, settings)
       THEN /\ answer' = RefusalAnswer("Refused-NoEvidence", {})
            /\ pc' = "Refused-NoEvidence"
            /\ UNCHANGED genCalls
       ELSE /\ genCalls' = 1
            /\ pc' = "generating"
            /\ answer' = NoAnswer
    /\ lexical_ranked' = <<>>
    /\ semantic_ranked' = <<>>
    /\ fused' = <<>>
    /\ UNCHANGED <<componentVars, settings, corpus, qcount, lexDone, semDone, evidence,
                   generated, error>>

\* the composer, were a flagged conflict to end the query before generation
ComposeBlocksOnConflict ==
    /\ pc = "filtered"
    /\ IF NoSources(evidence, settings) \/ DetectConflicts(evidence) # {}
       THEN /\ answer' = RefusalAnswer("Refused-NoEvidence",
                                       DetectConflicts(evidence))
            /\ pc' = "Refused-NoEvidence"
            /\ UNCHANGED genCalls
       ELSE /\ genCalls' = genCalls + 1
            /\ pc' = "generating"
            /\ UNCHANGED answer
    /\ lexical_ranked' = <<>>
    /\ semantic_ranked' = <<>>
    /\ fused' = <<>>
    /\ UNCHANGED <<componentVars, settings, corpus, qcount, lexDone, semDone, evidence,
                   generated, error>>

\* Unanswerable check, conflict detection, prompt, call of the generator.
\* The search returns here: its ranked lists and fused candidates are gone,
\* the composer holds the evidence only.
Compose ==
    /\ pc = "filtered"
    /\ IF NoSources(evidence, settings)
       THEN /\ answer' = RefusalAnswer("Refused-NoEvidence", {})
            /\ pc' = "Refused-NoEvidence"
            /\ UNCHANGED genCalls
       ELSE /\ genCalls' = genCalls + 1
            /\ pc' = "generating"
            /\ UNCHANGED answer
    /\ lexical_ranked' = <<>>
    /\ semantic_ranked' = <<>>
    /\ fused' = <<>>
    /\ UNCHANGED <<componentVars, settings, corpus, qcount, lexDone, semDone, evidence,
                   generated, error>>

\* the generation service returns a text: post-validation guardrail
GenerationReturns ==
    /\ pc = "generating"
    /\ \E text \in Texts :
          /\ generated' = text
          /\ answer' = PostValidate(text, evidence)
          /\ pc' = PostValidate(text, evidence).state
    /\ UNCHANGED <<componentVars, settings, corpus, qcount, lexDone, semDone, lexical_ranked,
                   semantic_ranked, fused, evidence, genCalls, error>>

\* the failure of the generation service, were the call repeated once
GenerationFailsThenRetries ==
    /\ pc = "generating"
    /\ IF genCalls < 2
       THEN /\ genCalls' = genCalls + 1
            /\ UNCHANGED <<pc, error>>
       ELSE /\ pc' = "PipelineError"
            /\ error' = "GenerationServiceError"
            /\ UNCHANGED genCalls
    /\ UNCHANGED <<componentVars, settings, corpus, qcount, lexDone, semDone, lexical_ranked,
                   semantic_ranked, fused, evidence, generated, answer>>

\* the generation service fails: pipeline error, no retry
GenerationFails ==
    /\ pc = "generating"
    /\ pc' = "PipelineError"
    /\ error' = "GenerationServiceError"
    /\ UNCHANGED <<componentVars, settings, corpus, qcount, lexDone, semDone, lexical_ranked,
                   semantic_ranked, fused, evidence, genCalls, generated,
                   answer>>

\* no query has been asked
QueryIdle ==
    /\ qcount = 0
    /\ pc = "idle"
    /\ lexDone = FALSE
    /\ semDone = FALSE
    /\ lexical_ranked = <<>>
    /\ semantic_ranked = <<>>
    /\ fused = <<>>
    /\ evidence = <<>>
    /\ genCalls = 0
    /\ generated = NoText
    /\ answer = NoAnswer
    /\ error = "none"

Init ==
    /\ settings = DefaultSettings
    /\ corpus = {}
    /\ \E S \in SUBSET Docs : IngestIdle(SnapshotOf(S))
    /\ qcount = 0
    /\ pc = "idle"
    /\ lexDone = FALSE
    /\ semDone = FALSE
    /\ lexical_ranked = <<>>
    /\ semantic_ranked = <<>>
    /\ fused = <<>>
    /\ evidence = <<>>
    /\ genCalls = 0
    /\ generated = NoText
    /\ answer = NoAnswer
    /\ error = "none"
    /\ filter_max_results = top_k
    /\ PartsIdle
    /\ AnonymizerIdle

Next ==
    \/ handleSave
    \/ handleReset
    \/ Ask
    \/ LexicalSearch
    \/ SemanticSearch
    \/ SemanticSearchFails
    \/ Fuse
    \/ Filter
    \/ Compose
    \/ GenerationReturns
    \/ GenerationFails

Spec == Init /\ [][Next]_vars

\* fuse and filter as pure functions: the inputs are any two ranked lists
InitFuse ==
    /\ settings = DefaultSettings
    /\ corpus = Docs
    /\ IngestIdle(SnapshotOf(Docs))
    /\ qcount = 1
    /\ pc = "retrieving"
    /\ lexDone = TRUE
    /\ semDone = TRUE
    /\ lexical_ranked \in RankedLists(Docs)
    /\ semantic_ranked \in RankedLists(Docs)
    /\ fused = <<>>
    /\ evidence = <<>>
    /\ genCalls = 0
    /\ generated = NoText
    /\ answer = NoAnswer
    /\ error = "none"
    /\ filter_max_results = top_k
    /\ PartsIdle
    /\ AnonymizerIdle

NextFuse == Fuse \/ Filter

SpecFuse == InitFuse /\ [][NextFuse]_vars

---------------------------------------------------------------------------
\* filter as a pure function: the input is any list of fused candidates in
\* descending order of fused_score, with any max_results

MaxRank == 7        \* the candidates score 1 / (K + rank), rank in 1..MaxRank
MaxResults == 3     \* max_results is in 0..MaxResults

\* a candidate at the given rank of the lexical list only
CandidateAt(d, rank) ==
    [document_id |-> d, fused_score |-> <<1, K + rank>>,
     contributing_methods |-> {"lexical"}]

FusedLists ==
    UNION {{f \in [1..n -> {CandidateAt(d, r) : d \in Docs, r \in 1..MaxRank}] :
              /\ \A i, j \in 1..n : i # j => f[i].document_id # f[j].document_id
              /\ \A i \in 1..(n - 1) :
                    RatGeq(f[i].fused_score, f[i + 1].fused_score)}
           : n \in 0..Cardinality(Docs)}

\* filter(fused_candidates, min_score, max_results), min_score being the
\* configured MIN_RELEVANCE_SCORE
FilterCall ==
    /\ pc = "fused"
    /\ evidence' = filter(fused, filter_max_results)
    /\ pc' = "filtered"
    /\ UNCHANGED <<settings, corpus, qcount, lexDone, semDone, lexical_ranked,
                   semantic_ranked, fused, genCalls, generated, answer, error,
                   componentVars>>

InitFilter ==
    /\ settings = DefaultSettings
    /\ corpus = Docs
    /\ IngestIdle(SnapshotOf(Docs))
    /\ qcount = 1
    /\ pc = "fused"
    /\ lexDone = TRUE
    /\ semDone = TRUE
    /\ lexical_ranked = <<>>
    /\ semantic_ranked = <<>>
    /\ fused \in FusedLists
    /\ evidence = <<>>
    /\ genCalls = 0
    /\ generated = NoText
    /\ answer = NoAnswer
    /\ error = "none"
    /\ filter_max_results \in 0..MaxResults
    /\ PartsIdle
    /\ AnonymizerIdle

NextFilter == FilterCall

SpecFilter == InitFilter /\ [][NextFilter]_vars

----------------------------------------------------------------------------
\* the score and the filter on one document at any ranks of the two
\* over-fetched lists (the other entries of the lists do not enter its score)

Window == top_k * OverFetch

ScoredDoc == <<1>>

\* the document is absent from a method's list, or at a rank of the window
RankingsAt ==
    UNION {[S -> [rank : 1..Window, score : {1}]] : S \in SUBSET {ScoredDoc}}

FuseRanked ==
    /\ pc = "ranked"
    /\ fused' = rank_fusion(rankings.vector, rankings.bm25)
    /\ pc' = "fused"
    /\ UNCHANGED <<settings, corpus, qcount, lexDone, semDone, lexical_ranked,
                   semantic_ranked, evidence, genCalls, generated, answer,
                   error, componentVars>>

InitScore ==
    /\ settings = DefaultSettings
    /\ corpus = Docs
    /\ IngestIdle(SnapshotOf(Docs))
    /\ qcount = 1
    /\ pc = "ranked"
    /\ lexDone = TRUE
    /\ semDone = TRUE
    /\ lexical_ranked = <<>>
    /\ semantic_ranked = <<>>
    /\ fused = <<>>
    /\ evidence = <<>>
    /\ genCalls = 0
    /\ generated = NoText
    /\ answer = NoAnswer
    /\ error = "none"
    /\ filter_max_results = top_k
    /\ rankings \in [vector : RankingsAt, bm25 : RankingsAt]
    /\ ChatIdle
    /\ ExportIdle
    /\ FeedbacksIdle
    /\ UploadIdle
    /\ AnonymizerIdle

NextScore == FuseRanked \/ FilterCall

SpecScore == InitScore /\ [][NextScore]_vars

----------------------------------------------------------------------------
\* the chat page on its own: it mounts with the history fetch in flight,
\* the stored history being empty or holding an earlier question

InitChat ==
    /\ settings = DefaultSettings
    /\ corpus = {}
    /\ QueryIdle
    /\ filter_max_results = top_k
    /\ rankings = NoRankings
    /\ \E h \in {<<>>, <<HistoryItem(OldQuestion)>>} : chat = ChatPage(h, TRUE)
    /\ ExportIdle
    /\ FeedbacksIdle
    /\ UploadIdle
    /\ AnonymizerIdle
    /\ IngestIdle(NoIndex)

NextChat ==
    \/ onChange
    \/ handleSubmit
    \/ ChatResponse
    \/ ChatFailure
    \/ HistoryResponse
    \/ HistoryFailure
    \/ MountHistoryResponse
    \/ MountHistoryFailure
    \/ selectHistoryItem
    \/ startNewChat
    \/ clearHistory

SpecChat == InitChat /\ [][NextChat]_vars

\* a request of the page that is in flight gets its response or fails
SpecChatFair ==
    /\ SpecChat
    /\ WF_vars(ChatResponse \/ ChatFailure)
    /\ WF_vars(HistoryResponse \/ HistoryFailure)

----------------------------------------------------------------------------
\* the feedback list page on its own

InitFeedbacks ==
    /\ settings = DefaultSettings
    /\ corpus = {}
    /\ QueryIdle
    /\ filter_max_results = top_k
    /\ PartsIdle
    /\ AnonymizerIdle
    /\ IngestIdle(NoIndex)

NextFeedbacks ==
    \/ fetchFeedbacks
    \/ fetchFeedbacksFails
    \/ setSearch
    \/ setFilterType
    \/ setFilterModel
    \/ setFilterMarket
    \/ setPage

SpecFeedbacks == InitFeedbacks /\ [][NextFeedbacks]_vars

----------------------------------------------------------------------------
\* the export page on its own

InitExport ==
    /\ settings = DefaultSettings
    /\ corpus = {}
    /\ QueryIdle
    /\ filter_max_results = top_k
    /\ PartsIdle
    /\ AnonymizerIdle
    /\ IngestIdle(NoIndex)

NextExport ==
    \/ setFormat
    \/ setExportType
    \/ setSelectedModels
    \/ generateExport
    \/ generatePdf
    \/ PdfResponse
    \/ PdfFailure
    \/ handleExport
    \/ exportedTimeout

SpecExport == InitExport /\ [][NextExport]_vars

---------------------------------------------------------------------------
\* anonymize as a pure function: the inputs are texts put together from
\* fragments that match, or nearly match, the patterns

MaxFragments == 3   \* fragments a raw text is put together from

Fragments ==
    {<<"a", "@", "b", ".", "d", "e">>,
     <<"0", "1", "5", "1", " ", "2", "3", "4">>,
     <<"0", "1", "5", "1", " ">>,
     <<"B", "-", "A", "B", " ", "1", "2">>,
     <<"B", "-", "A", "B", " ">>,
     <<"W", "V", "W", "Z", "Z", "Z", "1", "J", "Z", "X", "W", "0", "0", "0",
       "0", "0", "1">>,
     <<"1", ".", "1", ".", "2", "6">>,
     <<" ", "x">>,
     <<" ">>,
     <<"@", "b", ".", "d", "e">>}

RECURSIVE Concats(_)
Concats(n) ==
    IF n = 0 THEN {<<>>}
    ELSE Concats(n - 1) \cup {f \o t : f \in Fragments, t \in Concats(n - 1)}

\* "Kontakt: max@vw.de, Tel 0049 151 2345678, B-AB 1234"
Scenario ==
    <<"K", "o", "n", "t", "a", "k", "t", ":", " ",
      "m", "a", "x", "@", "v", "w", ".", "d", "e", ",", " ",
      "T", "e", "l", " ", "0", "0", "4", "9", " ", "1", "5", "1", " ",
      "2", "3", "4", "5", "6", "7", "8", ",", " ",
      "B", "-", "A", "B", " ", "1", "2", "3", "4">>

RawTexts == Concats(MaxFragments) \cup {Scenario}

Anonymize ==
    /\ anonymized = Pending
    /\ anonymized' = anonymize(anon_input)
    /\ UNCHANGED <<settings, queryVars, partVars, filter_max_results, anon_input, again,
                   ingestVars>>

\* anonymize applied to the anonymized text
AnonymizeAgain ==
    /\ anonymized.error = "none"
    /\ again = Pending
    /\ again' = anonymize(TextRecord(anonymized.anonymized_text))
    /\ UNCHANGED <<settings, queryVars, partVars, filter_max_results, anon_input,
                   anonymized, ingestVars>>

InitAnon ==
    /\ settings = DefaultSettings
    /\ corpus = {}
    /\ QueryIdle
    /\ filter_max_results = top_k
    /\ PartsIdle
    /\ anon_input \in {TextRecord(t) : t \in RawTexts} \cup {NonText}
    /\ anonymized = Pending
    /\ again = Pending
    /\ IngestIdle(NoIndex)

NextAnon == Anonymize \/ AnonymizeAgain

SpecAnon == InitAnon /\ [][NextAnon]_vars

---------------------------------------------------------------------------
\* Ingestion: the upload page posts a batch of raw records; the backend
\* anonymizes each record, rebuilds the index from the documents of the
\* old snapshot and the newly anonymized ones, and publishes it in one
\* step. Queries run meanwhile.

MaxRuns == 2        \* ingestion runs one after the other

IngestDocs == {<<1>>, <<1, 0>>}

\* the ids of S in the order of their ingestion
RECURSIVE InOrder(_)
InOrder(S) ==
    IF S = {} THEN <<>>
    ELSE LET d == CHOOSE d \in S : \A e \in S \ {d} : LexLess(d, e)
         IN <<d>> \o InOrder(S \ {d})

\* the raw records of the ids of S, those of Bad being no text
RawRecords(S, Bad) ==
    [i \in 1..Cardinality(S) |->
        [id |-> InOrder(S)[i],
         raw_text |-> IF InOrder(S)[i] \in Bad THEN NonText
                      ELSE TextRecord(SampleOf(InOrder(S)[i]))]]

\* what the core returns for a record: {anonymized, pii_matches}, and the
\* error for a rejected record
RecordResult(rec) ==
    LET a == anonymize(rec.raw_text)
    IN [id |-> rec.id, anonymized |-> a.error = "none",
        anonymized_text |-> a.anonymized_text,
        pii_matches |-> a.matches, error |-> a.error]

\* a call of anonymize by the run: its input and what it returned
LogEntry(rec) ==
    [run |-> runs, id |-> rec.id, raw_text |-> rec.raw_text,
     anonymized_text |-> RecordResult(rec).anonymized_text,
     matches |-> RecordResult(rec).pii_matches]

\* the documents of the snapshot being built: those of the old snapshot
\* and the records of this run that were anonymized
NewDocuments ==
    {results[i].id : i \in {j \in DOMAIN results : results[j].anonymized}}

Documents == DOMAIN index.docs \cup NewDocuments

TextOf(d) ==
    IF d \in NewDocuments
    THEN results[CHOOSE i \in DOMAIN results : results[i].id = d].anonymized_text
    ELSE index.docs[d]

\* data.pii_detected: the matches of all records, as the page previews them
RECURSIVE pii_detected(_)
pii_detected(res) ==
    IF res = <<>> THEN <<>>
    ELSE [i \in DOMAIN Head(res).pii_matches |->
             [type |-> Head(res).pii_matches[i].kind,
              text |-> Head(res).pii_matches[i].original_value,
              start |-> Head(res).pii_matches[i].start,
              end |-> Head(res).pii_matches[i].end]]
         \o pii_detected(Tail(res))

\* data.processed: the number of records that were anonymized and indexed
processed(res) == Cardinality({i \in DOMAIN res : res[i].anonymized})

\* handleUpload, until the request is sent; the backend takes the batch.
\* One run at a time.
handleUpload ==
    /\ ~uploading
    /\ ingest_pc = "idle"
    /\ runs < MaxRuns
    /\ \E S \in SUBSET (IngestDocs \ DOMAIN index.docs) :
          /\ S # {}
          /\ \E Bad \in SUBSET S : batch' = RawRecords(S, Bad)
    /\ runs' = runs + 1
    /\ uploading' = TRUE
    /\ progress' = 0
    /\ piiMatches' = <<>>
    /\ result' = NoResult
    /\ response' = "none"
    /\ results' = <<>>
    /\ staged' = <<>>
    /\ ingest_pc' = "anonymizing"
    /\ UNCHANGED <<settings, queryVars, pageVars, filter_max_results, anon_input,
                   anonymized, again, index, anonymize_log, published>>

\* the step for a record, were a rejected record to end the run
AnonymizeRecordFatal ==
    /\ ingest_pc = "anonymizing"
    /\ Len(results) < Len(batch)
    /\ LET rec == batch[Len(results) + 1]
           res == RecordResult(rec)
       IN /\ results' = IF res.anonymized THEN Append(results, res)
                        ELSE [i \in DOMAIN batch |->
                                 IF i <= Len(results) THEN results[i]
                                 ELSE [RecordResult(batch[i]) EXCEPT
                                          !.anonymized = FALSE,
                                          !.anonymized_text = <<>>,
                                          !.pii_matches = <<>>,
                                          !.error = "InvalidInput"]]
          /\ anonymize_log' = Append(anonymize_log, LogEntry(rec))
    /\ UNCHANGED <<settings, queryVars, partVars, filter_max_results, anon_input,
                   anonymized, again, runs, index, staged, batch, ingest_pc,
                   published, uploading, result, piiMatches>>

\* The next record of the batch is anonymized. A record that is no text is
\* rejected with InvalidInput, for that record only.
AnonymizeRecord ==
    /\ ingest_pc = "anonymizing"
    /\ Len(results) < Len(batch)
    /\ LET rec == batch[Len(results) + 1]
       IN /\ results' = Append(results, RecordResult(rec))
          /\ anonymize_log' = Append(anonymize_log, LogEntry(rec))
    /\ UNCHANGED <<settings, queryVars, partVars, filter_max_results, anon_input,
                   anonymized, again, runs, index, staged, batch, ingest_pc,
                   published, uploading, result, piiMatches>>

\* batch completion: the rebuild begins
StartRebuild ==
    /\ ingest_pc = "anonymizing"
    /\ Len(results) = Len(batch)
    /\ ingest_pc' = "building"
    /\ staged' = <<>>
    /\ UNCHANGED <<settings, queryVars, partVars, filter_max_results, anon_input,
                   anonymized, again, runs, index, batch, results,
                   anonymize_log, published, uploading, result, piiMatches>>

\* the rebuild, were the raw text of the record stored
IndexDocumentRaw ==
    /\ ingest_pc = "building"
    /\ DOMAIN staged # Documents
    /\ LET d == InOrder(Documents \ DOMAIN staged)[1]
       IN staged' = [e \in DOMAIN staged \cup {d} |->
                        IF e # d THEN staged[e]
                        ELSE IF d \in NewDocuments
                        THEN batch[CHOOSE i \in DOMAIN batch : batch[i].id = d]
                                .raw_text.value
                        ELSE index.docs[d]]
    /\ UNCHANGED <<settings, queryVars, partVars, filter_max_results, anon_input,
                   anonymized, again, runs, index, batch, ingest_pc, results,
                   anonymize_log, published, uploading, result, piiMatches>>

\* the next document enters the index being built, with its anonymized text
IndexDocument ==
    /\ ingest_pc = "building"
    /\ DOMAIN staged # Documents
    /\ LET d == InOrder(Documents \ DOMAIN staged)[1]
       IN staged' = [e \in DOMAIN staged \cup {d} |->
                        IF e = d THEN TextOf(d) ELSE staged[e]]
    /\ UNCHANGED <<settings, queryVars, partVars, filter_max_results, anon_input,
                   anonymized, again, runs, index, batch, ingest_pc, results,
                   anonymize_log, published, uploading, result, piiMatches>>

\* the swap, were the index published while it is being built
SwapIndexEarly ==
    /\ ingest_pc = "building"
    /\ index' = Snapshot(staged)
    /\ published' = published \cup {Snapshot(staged)}
    /\ ingest_pc' = IF DOMAIN staged = Documents THEN "done" ELSE "building"
    /\ UNCHANGED <<settings, queryVars, partVars, filter_max_results, anon_input,
                   anonymized, again, runs, staged, batch, results,
                   anonymize_log, uploading, result, piiMatches>>

\* atomic replace-on-rebuild: the complete new index replaces the old one
SwapIndex ==
    /\ ingest_pc = "building"
    /\ DOMAIN staged = Documents
    /\ index' = Snapshot(staged)
    /\ published' = published \cup {Snapshot(staged)}
    /\ ingest_pc' = "done"
    /\ UNCHANGED <<settings, queryVars, partVars, filter_max_results, anon_input,
                   anonymized, again, runs, staged, batch, results,
                   anonymize_log, uploading, result, piiMatches>>

\* the interval callback, were it to stop at 100
progressTickUncapped ==
    /\ uploading
    /\ progress' = IF progress >= ProgressDone THEN ProgressDone
                   ELSE progress + ProgressStep
    /\ progress' # progress
    /\ UNCHANGED <<settings, queryVars, pageVars, filter_max_results, anon_input,
                   anonymized, again, ingestVars, response>>

\* the callback of setInterval, every 200 ms until clearInterval
progressTick ==
    /\ uploading
    /\ progress' = IF progress >= ProgressCap THEN ProgressCap
                   ELSE progress + ProgressStep
    /\ progress' # progress
    /\ UNCHANGED <<settings, queryVars, pageVars, filter_max_results, anon_input,
                   anonymized, again, ingestVars, response>>

\* handleUpload, from the response on: the response is ok, or ok with a
\* body that does not parse, or an error response
UploadResponse ==
    /\ uploading
    /\ ingest_pc = "done"
    /\ progress' = ProgressDone
    /\ \E r \in {"ok", "unparsable", "error"} :
          /\ response' = r
          /\ IF r = "ok"
             THEN /\ piiMatches' = IF Len(pii_detected(results)) > 0
                                   THEN pii_detected(results)
                                   ELSE piiMatches
                  /\ result' = [success |-> TRUE,
                                processed |-> processed(results),
                                shown |-> TRUE]
             ELSE /\ piiMatches' = piiMatches
                  /\ result' = [success |-> FALSE, processed |-> 0,
                                shown |-> TRUE]
    /\ uploading' = FALSE
    /\ ingest_pc' = "idle"
    /\ UNCHANGED <<settings, queryVars, pageVars, filter_max_results, anon_input,
                   anonymized, again, runs, index, staged, batch, results,
                   anonymize_log, published>>

\* handleUpload, the fetch rejected: the response is lost on its way
UploadFailure ==
    /\ uploading
    /\ ingest_pc = "done"
    /\ response' = "failed"
    /\ result' = [success |-> FALSE, processed |-> 0, shown |-> TRUE]
    /\ uploading' = FALSE
    /\ ingest_pc' = "idle"
    /\ UNCHANGED <<settings, queryVars, pageVars, filter_max_results, anon_input,
                   anonymized, again, runs, index, staged, batch, results,
                   anonymize_log, published, piiMatches, progress>>

InitIngest ==
    /\ settings = DefaultSettings
    /\ corpus = {}
    /\ QueryIdle
    /\ filter_max_results = top_k
    /\ PartsIdle
    /\ AnonymizerIdle
    /\ IngestIdle(NoIndex)

\* the ingestion runs on their own
NextUpload ==
    \/ handleUpload
    \/ AnonymizeRecord
    \/ StartRebuild
    \/ IndexDocument
    \/ SwapIndex
    \/ UploadResponse
    \/ UploadFailure

SpecUpload == InitIngest /\ [][NextUpload]_vars

\* the upload page with its progress bar
NextUploadPage == NextUpload \/ progressTick

SpecUploadPage == InitIngest /\ [][NextUploadPage]_vars

\* the ingestion runs with queries in between; what the generation
\* service writes plays no part in the snapshot a query reads, so the
\* service only fails here
NextIngest ==
    \/ NextUpload
    \/ Ask
    \/ LexicalSearch
    \/ SemanticSearch
    \/ Fuse
    \/ Filter
    \/ Compose
    \/ GenerationFails

SpecIngest == InitIngest /\ [][NextIngest]_vars

---------------------------------------------------------------------------
\* Properties of the answer composer

WhollyIrrelevant ==
    /\ corpus # {}
    /\ lexical_ranked = <<>>
    /\ \A i \in DOMAIN semantic_ranked : semantic_ranked[i].method_score = 1

\* C2: a query against an empty or a wholly irrelevant corpus is refused
\* with answerable = false, no citation and no call of the generation
\* service.
C2_IrrelevantCorpusRefused ==
    [][(/\ pc = "filtered"
        /\ pc' # pc
        /\ corpus = {} \/ WhollyIrrelevant)
       => /\ pc' = "Refused-NoEvidence"
          /\ genCalls' = 0
          /\ answer'.answerable = FALSE
          /\ answer'.citations = <<>>]_vars


\* C3: citation integrity. Every citation of an Answered query is an item
\* of the evidence set the composer received for that query.
C3_CitationIntegrity ==
    pc = "Answered" =>
        \A i \in DOMAIN answer.citations : answer.citations[i] \in Range(evidence)

\* the second query is answered and cites some, not all, of its evidence
C3_Witness ==
    /\ pc = "Answered"
    /\ qcount = 2
    /\ Len(answer.citations) >= 1
    /\ Len(answer.citations) < Len(evidence)

\* a query in flight can take its next step (the join needs no more than
\* both retrievals done, which is the guard of Fuse)
C4_CanMoveOn ==
    /\ (pc = "retrieving" /\ ~lexDone) => ENABLED LexicalSearch
    /\ (pc = "retrieving" /\ ~semDone) => ENABLED SemanticSearch
    /\ pc = "fused" => ENABLED Filter
    /\ pc = "filtered" => ENABLED Compose
    /\ pc = "generating" => ENABLED GenerationReturns

C4_TerminalStates ==
    /\ pc \in Terminal =>
          /\ answer.state = pc
          /\ pc = "Answered" =>
                answer.answerable = TRUE /\ Len(answer.citations) >= 1
          /\ pc \in {"Refused-NoEvidence", "Refused-UncitedOutput"} =>
                answer.answerable = FALSE
          /\ error = "none"
    /\ pc \notin Terminal => answer = NoAnswer
    /\ C4_CanMoveOn

C4_NoStepLeavesTerminal ==
    (pc \in Terminal /\ qcount' = qcount) => (pc' = pc /\ answer' = answer)

C5_RefusalPhraseGuardrail ==
    (pc \in Terminal /\ genCalls = 1
        /\ generated.phrase \in {"liegt nicht vor", "Liegt nicht vor"})
    => (answer.answerable = FALSE /\ answer.citations = <<>>)

\* a refusing text whose markers all resolve
C5_Witness ==
    /\ pc \in Terminal
    /\ genCalls = 1
    /\ generated.phrase = "liegt nicht vor"
    /\ generated.claims # {}
    /\ generated.claims \subseteq Ids(evidence)
    /\ answer.citations = <<>>
    /\ answer.answerable = FALSE

\* some claim of the generated text has no marker that resolves
HasUncitedClaim ==
    \E c \in generated.claims : c = NoMarker \/ c \notin Ids(evidence)

C7_Failure ==
    /\ genCalls <= 1
    /\ error = "GenerationServiceError" =>
          /\ pc = "PipelineError"
          /\ genCalls = 1
          /\ answer = NoAnswer

C7_FailureStep ==
    /\ (pc = "generating" /\ genCalls' = genCalls /\ pc' \notin Terminal /\ pc' # pc)
          => (pc' = "PipelineError" /\ error' = "GenerationServiceError")
    /\ (error = "GenerationServiceError" /\ qcount' = qcount)
          => UNCHANGED <<pc, genCalls, answer, error>>

\* C7: the generation service is called at most once per query; when the
\* call fails the query ends with the pipeline error GenerationServiceError
\* and without an Answer, and stays so: no second call, no refusal.
C7_SingleGenerationCall ==
    [](C7_Failure) /\ [][C7_FailureStep]_vars

\* the generation call of the second query failed
C7_Witness ==
    /\ error = "GenerationServiceError"
    /\ pc = "PipelineError"
    /\ genCalls = 1
    /\ qcount = 2

---------------------------------------------------------------------------
\* Properties of the fusion engine

\* 1-based position of document d in a ranked list that contains it
PositionIn(list, d) == CHOOSE i \in DOMAIN list : list[i].document_id = d

\* the term 1 / (K + rank) a list contributes to document d
TermOf(list, d) ==
    IF d \in Ids(list) THEN <<1, K + PositionIn(list, d)>> ELSE <<0, 1>>

InputDocs == Ids(lexical_ranked) \cup Ids(semantic_ranked)

\* C8: for every document of either ranked list the fused candidate exists
\* and its fused_score is the sum, over the lists that contain it, of
\* 1 / (60 + its 1-based rank in that list).
C8_ReciprocalRankSum ==
    pc = "fused" =>
        \A d \in InputDocs :
            \E i \in DOMAIN fused :
                /\ fused[i].document_id = d
                /\ RatEq(fused[i].fused_score,
                         RatAdd(TermOf(lexical_ranked, d), TermOf(semantic_ranked, d)))

\* fused lists with a document in both lists at different ranks, one in
\* the lexical list only and one in the semantic list only
C8_Witness ==
    /\ pc = "fused"
    /\ \E d \in InputDocs :
          /\ d \in Ids(lexical_ranked) /\ d \in Ids(semantic_ranked)
          /\ PositionIn(lexical_ranked, d) # PositionIn(semantic_ranked, d)
    /\ \E d \in InputDocs : d \notin Ids(semantic_ranked)
    /\ \E d \in InputDocs : d \notin Ids(lexical_ranked)

FirstInBoth(d) ==
    /\ lexical_ranked # <<>> /\ lexical_ranked[1].document_id = d
    /\ semantic_ranked # <<>> /\ semantic_ranked[1].document_id = d

FirstInOneOnly(d) ==
    \/ /\ lexical_ranked # <<>> /\ lexical_ranked[1].document_id = d
       /\ d \notin Ids(semantic_ranked)
    \/ /\ semantic_ranked # <<>> /\ semantic_ranked[1].document_id = d
       /\ d \notin Ids(lexical_ranked)

\* C9: a document at rank 1 of one list only scores exactly 1 / 61; a
\* document at rank 1 of both lists scores strictly more than that and is
\* the first candidate of the fused output.
C9_Monotonicity ==
    pc = "fused" =>
        \A i \in DOMAIN fused :
            /\ FirstInOneOnly(fused[i].document_id) =>
                  RatEq(fused[i].fused_score, <<1, K + 1>>)
            /\ FirstInBoth(fused[i].document_id) =>
                  /\ RatLess(<<1, K + 1>>, fused[i].fused_score)
                  /\ i = 1

\* a document at rank 1 of both lists, fused with two other documents
C9_Witness ==
    /\ pc = "fused"
    /\ Len(fused) = 3
    /\ FirstInBoth(fused[1].document_id)

\* raw lexical score of document d, 0 when the lexical list has no d
LexicalScoreOf(d) ==
    IF d \in Ids(lexical_ranked)
    THEN lexical_ranked[PositionIn(lexical_ranked, d)].method_score
    ELSE 0

\* a is placed before b by the order of the fused output
PlacedBefore(a, b) ==
    \/ RatLess(b.fused_score, a.fused_score)
    \/ /\ RatEq(a.fused_score, b.fused_score)
       /\ LexicalScoreOf(a.document_id) > LexicalScoreOf(b.document_id)
    \/ /\ RatEq(a.fused_score, b.fused_score)
       /\ LexicalScoreOf(a.document_id) = LexicalScoreOf(b.document_id)
       /\ LexLess(a.document_id, b.document_id)

\* C10: the fused output holds every document of the two lists exactly
\* once, sorted by descending fused_score, then by descending raw lexical
\* score, then by lexicographically ascending document id.
C10_FusedOrder ==
    pc = "fused" =>
        /\ Ids(fused) = InputDocs
        /\ Len(fused) = Cardinality(InputDocs)
        /\ \A i, j \in DOMAIN fused : i < j => PlacedBefore(fused[i], fused[j])

\* two candidates equal in fused_score and in lexical score: "10" is placed
\* before "2"
C10_Witness ==
    /\ pc = "fused"
    /\ \E i, j \in DOMAIN fused :
          /\ i < j
          /\ RatEq(fused[i].fused_score, fused[j].fused_score)
          /\ LexicalScoreOf(fused[i].document_id) = LexicalScoreOf(fused[j].document_id)
          /\ LexicalScoreOf(fused[i].document_id) > 0
          /\ fused[i].document_id = <<1, 0>>
          /\ fused[j].document_id = <<2>>

\* the document ids of a list, in its order
Order(list) == [i \in DOMAIN list |-> list[i].document_id]

\* b holds the entries of a, the score at every position is the same: b is
\* a with entries of equal score exchanged
TiePermutation(a, b) ==
    /\ Len(a) = Len(b)
    /\ Range(a) = Range(b)
    /\ \A i \in DOMAIN a : a[i].method_score = b[i].method_score

---------------------------------------------------------------------------
\* Properties of the relevance filter

\* the positions of the candidates at or above the threshold
KeptPositions ==
    {i \in DOMAIN fused :
        fused[i].fused_score[1] * MinRelevanceDen
            >= MinRelevanceNum * fused[i].fused_score[2]}

\* the j-th of these positions
KeptPosition(j) ==
    CHOOSE i \in KeptPositions :
        Cardinality({k \in KeptPositions : k <= i}) = j

\* C12: the result of filter is the first max_results candidates, in their
\* fused order, of the candidates whose fused_score is at or above the
\* threshold: no item below the threshold, at most max_results items, and
\* an empty result is a value (the call ends without an error).
C12_FilterContract ==
    pc = "filtered" =>
        /\ Len(evidence) = Min(filter_max_results, Cardinality(KeptPositions))
        /\ \A j \in DOMAIN evidence :
              /\ evidence[j].document_id = fused[KeptPosition(j)].document_id
              /\ evidence[j].fused_score = fused[KeptPosition(j)].fused_score
              /\ RatGeq(evidence[j].fused_score, <<MinRelevanceNum, MinRelevanceDen>>)
        /\ Len(evidence) <= filter_max_results
        /\ \A i \in DOMAIN fused :
              RatLess(fused[i].fused_score, <<MinRelevanceNum, MinRelevanceDen>>)
                  => fused[i].document_id \notin Ids(evidence)
        /\ error = "none"

\* three candidates, one below the threshold, max_results = 1: one item is
\* cut by max_results, one by the threshold
C12_Witness ==
    /\ pc = "filtered"
    /\ Len(fused) = 3
    /\ Cardinality(KeptPositions) = 2
    /\ filter_max_results = 1
    /\ Len(evidence) = 1

\* every candidate is below the threshold: the result is empty
C12_WitnessEmpty ==
    /\ pc = "filtered"
    /\ Len(fused) = 2
    /\ KeptPositions = {}
    /\ filter_max_results = 2
    /\ evidence = <<>>
    /\ error = "none"

---------------------------------------------------------------------------
\* Properties of the conflict detection

\* the pairs flagged in the evidence of the current query
FlaggedPairs == DetectConflicts(evidence)

\* C20: conflict detection never blocks generation. A query whose evidence
\* is not empty leaves the composer's first step into the call of the
\* generation service (one more call), whether or not pairs of its evidence
\* are flagged; and every pair in Answer.conflict_flags is two different
\* document ids of the evidence of that query.
C20_ConflictsNeverBlock ==
    /\ [](pc \in Finished =>
            \A p \in answer.conflict_flags :
                /\ p[1] \in Ids(evidence)
                /\ p[2] \in Ids(evidence)
                /\ p[1] # p[2])
    /\ [][(pc = "filtered" /\ evidence # <<>> /\ pc' # pc) =>
            (pc' = "generating" /\ genCalls' = genCalls + 1)]_vars

\* an answer was generated from evidence with a flagged pair, and carries it
C20_Witness ==
    /\ pc = "Answered"
    /\ genCalls = 1
    /\ FlaggedPairs # {}
    /\ answer.conflict_flags = FlaggedPairs

---------------------------------------------------------------------------
\* Properties of the anonymizer

\* the value v occurs in the text t
Occurs(v, t) ==
    \E i \in 0..(Len(t) - Len(v)) : SubSeq(t, i + 1, i + Len(v)) = v

\* the offsets of the raw text that a kept match replaced
Replaced(kept) ==
    {p \in 0..Len(anon_input.value) :
        \E i \in DOMAIN kept : kept[i].start <= p /\ p < kept[i].end}

\* C16: for every raw text, what a registered pattern matched in it is
\* absent from anonymized_text: the matched value of every match of every
\* detector, the matches that lost the overlap resolution included, does
\* not occur in anonymized_text, and no character of its span was left in
\* place.
C16_MatchedSubstringsAbsent ==
    anonymized.error = "none" =>
        \A m \in Range(Detect(anon_input.value)) :
            /\ ~Occurs(m.original_value, anonymized.anonymized_text)
            /\ m.start..(m.end - 1) \subseteq Replaced(anonymized.matches)

\* C17: anonymize is idempotent. Applied to the anonymized_text of any
\* input it returns the same text and an empty list of matches.
C17_Idempotent ==
    again.error = "none" =>
        /\ again.anonymized_text = anonymized.anonymized_text
        /\ again.matches = <<>>

---------------------------------------------------------------------------
\* Properties of ingestion and of the index snapshots

\* a query holds ranked lists of its lookups
InFlight == pc \in {"retrieving", "fused", "filtered"}

AnonymizedCalls(d) ==
    {i \in DOMAIN anonymize_log :
        anonymize_log[i].id = d /\ anonymize_log[i].raw_text.type = "str"}

\* the texts stored for d in the index being built and in the snapshot
StoredTexts(d) ==
    {staged[e] : e \in DOMAIN staged \cap {d}}
        \cup {index.docs[e] : e \in DOMAIN index.docs \cap {d}}

\* C15: anonymize before index. A document is in the index being built
\* or in the published index only when anonymize has run on its record
\* exactly once, and the text stored for it is the anonymized_text of
\* that call, not the raw text; a record that was not anonymized is not
\* indexed.
C15_AnonymizeBeforeIndex ==
    \A d \in DOMAIN staged \cup DOMAIN index.docs :
        /\ Cardinality(AnonymizedCalls(d)) = 1
        /\ \A i \in AnonymizedCalls(d) :
               /\ StoredTexts(d) = {anonymize_log[i].anonymized_text}
               /\ anonymize_log[i].matches # <<>> =>
                     anonymize_log[i].raw_text.value \notin StoredTexts(d)

\* a document with PII is stored, in the index being built, as its
\* anonymized text
C15_Witness ==
    /\ ingest_pc = "building"
    /\ <<1>> \in DOMAIN staged
    /\ staged[<<1>>] = Tag["email"]
    /\ \E i \in DOMAIN batch :
          batch[i].id = <<1>> /\ batch[i].raw_text.value # staged[<<1>>]

\* the matches of all calls of anonymize, with the run of the call
LoggedMatches ==
    UNION {{[run |-> anonymize_log[i].run, id |-> anonymize_log[i].id,
             match |-> m] : m \in Range(anonymize_log[i].matches)} :
           i \in DOMAIN anonymize_log}

\* C18: pseudonym determinism. Two matches with the same original value
\* have the same pseudonym, within a record, across records and across
\* runs; every pseudonym has the same fixed length; it is the digest of
\* the matched value and of nothing else.
C18_PseudonymDeterminism ==
    \A a \in LoggedMatches :
        /\ Len(a.match.pseudonym) = PseudonymLen
        /\ a.match.pseudonym =
              SubSeq(hexdigest(a.match.original_value), 1, PseudonymLen)
        /\ \A b \in LoggedMatches :
               a.match.original_value = b.match.original_value
                   => a.match.pseudonym = b.match.pseudonym

\* the same value was matched in two records of two different runs
C18_Witness ==
    \E a, b \in LoggedMatches :
        /\ a.run # b.run
        /\ a.id # b.id
        /\ a.match.original_value = b.match.original_value
        /\ a.match.pseudonym = b.match.pseudonym

Malformed(i) == batch[i].raw_text.type # "str"

\* C19: ingestion error isolation. A malformed record of a batch is
\* rejected with InvalidInput, with no text and no matches returned for
\* it; it is not indexed; the error is reported for that record; every
\* other record of the batch is anonymized, and indexed when the run has
\* finished; the page shows the number of records processed.
C19_ErrorIsolation ==
    /\ \A i \in DOMAIN results :
          /\ results[i].id = batch[i].id
          /\ IF Malformed(i)
             THEN /\ results[i].error = "InvalidInput"
                  /\ ~results[i].anonymized
                  /\ results[i].anonymized_text = <<>>
                  /\ results[i].pii_matches = <<>>
                  /\ batch[i].id \notin DOMAIN staged \cup DOMAIN index.docs
             ELSE /\ results[i].error = "none"
                  /\ results[i].anonymized
    /\ ingest_pc \in {"building", "done"} => Len(results) = Len(batch)
    /\ ingest_pc = "done" =>
          \A i \in DOMAIN batch : ~Malformed(i) => batch[i].id \in DOMAIN index.docs
    /\ (result.shown /\ result.success) =>
          result.processed = Cardinality({i \in DOMAIN batch : ~Malformed(i)})

\* a batch whose first record is malformed: the second one is indexed
C19_Witness ==
    /\ ingest_pc = "done"
    /\ Len(batch) = 2
    /\ Malformed(1)
    /\ ~Malformed(2)
    /\ results[1].error = "InvalidInput"
    /\ batch[2].id \in DOMAIN index.docs
    /\ batch[1].id \notin DOMAIN index.docs

----------------------------------------------------------------------------
\* Overlap resolution of the anonymizer

\* the matches of all detectors on the input, losers included
Detected == Range(Detect(anon_input.value))

Applied == Range(anonymized.matches)

Overlap(m, n) == m.start < n.end /\ n.start < m.end

\* the earlier start, or on equal start the more specific pattern
Prevails(m, n) ==
    \/ m.start < n.start
    \/ m.start = n.start /\ Wildcards(m.kind) < Wildcards(n.kind)

\* applied matches are ordered by start and pairwise disjoint, and the span
\* of each still denotes its original_value in raw_text
AppliedInOriginalOffsets ==
    /\ \A i, j \in DOMAIN anonymized.matches :
           i < j => anonymized.matches[i].end <= anonymized.matches[j].start
    /\ \A i \in DOMAIN anonymized.matches :
           LET m == anonymized.matches[i]
           IN /\ 0 <= m.start
              /\ m.start < m.end
              /\ m.end <= Len(anon_input.value)
              /\ SubSeq(anon_input.value, m.start + 1, m.end) = m.original_value

C23_WitnessChain ==
    /\ anonymized.error = "none"
    /\ \E a, c \in Applied : \E b \in Detected \ Applied :
           /\ a.start < b.start /\ b.start < c.start
           /\ Overlap(a, b) /\ Overlap(b, c)


----------------------------------------------------------------------------
\* The join of the two retrievals

\* the query is past the join
Joined == pc \in {"fused", "filtered", "generating"} \cup Terminal

\* C24: join before fusion. The lexical and the semantic retrieval of a
\* query complete in either order; a fused list exists only when both have
\* completed, it is the fusion of the two lists whatever their order of
\* completion, and a query whose retrieval failed (no valid snapshot, or the
\* embedding service) has no fused list, no evidence and no Answer.
C24_JoinBeforeFusion ==
    /\ Joined => (lexDone /\ semDone
                    /\ fused = fuse(lexical_ranked, semantic_ranked))
    /\ ~(lexDone /\ semDone) => (fused = <<>> /\ evidence = <<>>)
    /\ error \in {"EmbeddingServiceError", "IndexUnavailable"} =>
           /\ pc = "PipelineError"
           /\ fused = <<>>
           /\ evidence = <<>>
           /\ answer = NoAnswer
           /\ genCalls = 0

\* both retrievals completed and their lists fused, with documents of both
C24_Witness ==
    /\ pc = "fused"
    /\ lexDone /\ semDone
    /\ lexical_ranked # <<>>
    /\ Len(semantic_ranked) > Len(lexical_ranked)
    /\ Ids(fused) = Ids(semantic_ranked)

\* the lexical retrieval completed first
C24_WitnessLexicalFirst ==
    pc = "retrieving" /\ lexDone /\ ~semDone /\ lexical_ranked # <<>>

\* the semantic retrieval completed first
C24_WitnessSemanticFirst ==
    pc = "retrieving" /\ semDone /\ ~lexDone /\ semantic_ranked # <<>>

\* the semantic retrieval failed after the lexical one had completed
C24_WitnessFailure ==
    error = "EmbeddingServiceError" /\ qcount = 1


----------------------------------------------------------------------------
\* The threshold in terms of ranks

InVector == ScoredDoc \in DOMAIN rankings.vector
InBM25 == ScoredDoc \in DOMAIN rankings.bm25

\* the document's rank in the one list that holds it
OnlyRank ==
    IF InVector THEN rankings.vector[ScoredDoc].rank
    ELSE rankings.bm25[ScoredDoc].rank

Passes == ScoredDoc \in Ids(evidence)

\* C26: with K = 60, a window of top_k * 2 = 20 ranks and
\* MIN_RELEVANCE_SCORE = 0.015, a document of one list only passes the
\* filter exactly when its rank there is at most 6 (1/66 >= 0.015 > 1/67),
\* and a document of both lists passes at every pair of ranks.
C26_RankCutoff ==
    pc = "filtered" =>
        /\ (InVector /\ InBM25) => Passes
        /\ (InVector # InBM25) => (Passes <=> OnlyRank <= 6)
        /\ (~InVector /\ ~InBM25) => evidence = <<>>

\* rank 6 of the lexical list only: kept
C26_Witness ==
    /\ pc = "filtered"
    /\ ~InVector /\ InBM25
    /\ OnlyRank = 6
    /\ Passes

\* rank 7 of the semantic list only: dropped
C26_WitnessDropped ==
    /\ pc = "filtered"
    /\ InVector /\ ~InBM25
    /\ OnlyRank = 7
    /\ evidence = <<>>

\* the last rank of the window in both lists: kept
C26_WitnessBoth ==
    /\ pc = "filtered"
    /\ InVector /\ InBM25
    /\ rankings.vector[ScoredDoc].rank = Window
    /\ rankings.bm25[ScoredDoc].rank = Window
    /\ Passes


----------------------------------------------------------------------------
\* Properties of the chat page

\* the Answers the backend gives to the questions of the model
BackendAnswers == {ChatAnswer(q) : q \in Inputs \cup {OldQuestion}}

\* the warning "Keine ausreichende Evidenz in den Daten" is rendered
ShowsWarning(m) == m.answerable = FALSE

\* the assistant messages on display that are answers of the backend
DisplayedAnswers ==
    {i \in DOMAIN chat.messages :
        /\ chat.messages[i].role = "assistant"
        /\ chat.messages[i].content # ConnectionError}

\* C21: the chat page renders the Answer as it is. Every assistant message
\* on display that carries an answer of the backend, whether appended by
\* handleSubmit or loaded by loadHistoryItem, shows the answerable flag the
\* backend gave with that answer, and an unanswerable one shows the warning.
C21_AnswerableAsBackend ==
    \A i \in DisplayedAnswers :
        \E a \in BackendAnswers :
            /\ a.answer = chat.messages[i].content
            /\ a.answerable = chat.messages[i].answerable
            /\ ~a.answerable => ShowsWarning(chat.messages[i])

\* a submission has been started in this step
Submitted == chat'.submitted = chat.submitted + 1

\* a submission has got the response of the chat request, or its failure
Answered ==
    \E r \in chat.requests :
        /\ r.awaits = "chat"
        /\ r \notin chat'.requests

\* C27: chat submission guard. A submission starts only with a non-blank
\* input and loading false; loading is true exactly while a submission is
\* under way, so at most one chat request is in flight; the end of a
\* submission resets loading, and every submission ends.
C27_SubmissionGuard ==
    /\ [](Cardinality(chat.requests) <= 1)
    /\ [](chat.loading <=> chat.requests # {})
    /\ [][Submitted =>
            /\ trim(chat.input) # <<>>
            /\ ~chat.loading
            /\ chat'.loading
            /\ \E r \in chat'.requests : r.awaits = "chat"]_vars
    /\ [][(chat.requests # {} /\ chat'.requests = {}) => ~chat'.loading]_vars
    /\ (chat.loading ~> ~chat.loading)

\* the second submission of the page is under way, the first one ended
C27_Witness ==
    /\ chat.loading
    /\ chat.submitted = 2
    /\ \E r \in chat.requests : r.awaits = "chat"
    /\ Len(chat.messages) > 2

\* C28: chat message list integrity. Apart from new chat, clear history
\* and the selection of a history entry, a step leaves the message list as
\* it is or appends to it: a submission appends the question, its response
\* or failure appends exactly one assistant message (the answer, or the
\* connection error with answerable false), and no completion of
\* fetchHistory changes the list while a conversation is on display.
C28_MessageListIntegrity ==
    [][\/ startNewChat
       \/ clearHistory
       \/ selectHistoryItem
       \/ /\ Submitted
          /\ chat'.messages = Append(chat.messages, UserMessage(chat.input))
       \/ /\ ~Submitted
          /\ Answered
          /\ \E a \in BackendAnswers \cup
                        {[answer |-> ConnectionError, answerable |-> FALSE]} :
                chat'.messages =
                    Append(chat.messages,
                           AssistantMessage(a.answer, a.answerable))
       \/ /\ ~Submitted
          /\ ~Answered
          /\ \/ chat'.messages = chat.messages
             \/ chat.messages = <<>>]_vars


----------------------------------------------------------------------------
\* Properties of the export page

\* C22: whatever the sequence of format changes, filter changes and clicks
\* on 'Generieren' and 'Herunterladen', a file is downloaded only when a
\* preview was generated, and the file holds the preview that was generated
\* for the format selected at the download, under the extension of that
\* format.
C22_DownloadIsPreviewOfFormat ==
    exportPage.downloaded # NoDownload =>
        /\ exportPage.downloaded.content # NoContent
        /\ exportPage.downloaded.content.format = exportPage.downloaded.extension
        /\ exportPage.downloaded.extension \in Formats


----------------------------------------------------------------------------
\* Properties of the feedback list page

\* two characters that differ in case at most
SameLetter(a, b) ==
    \/ a = b
    \/ \E k \in DOMAIN UpperCaseLetters :
          {a, b} = {UpperCaseLetters[k], LowerCaseLetters[k]}

\* part occurs in s, case ignored
ContainsIgnoringCase(s, part) ==
    \E i \in 0..(Len(s) - Len(part)) :
        \A j \in DOMAIN part : SameLetter(s[i + j], part[j])

\* fb satisfies all active filters
Satisfies(fb) ==
    /\ \/ feedbacksPage.search = <<>>
       \/ ContainsIgnoringCase(fb.text, feedbacksPage.search)
       \/ ContainsIgnoringCase(fb.id, feedbacksPage.search)
    /\ feedbacksPage.filterType \in {NoFilter, fb.source_type}
    /\ feedbacksPage.filterModel \in {NoFilter, fb.vehicle_model}
    /\ feedbacksPage.filterMarket \in {NoFilter, fb.market}

\* the loaded feedbacks that satisfy all active filters, in load order
Matching == SelectSeq(feedbacksPage.feedbacks, Satisfies)

LastPage == IF Matching = <<>> THEN 1
            ELSE (Len(Matching) + itemsPerPage - 1) \div itemsPerPage

FiltersOf(p) ==
    <<p.feedbacks, p.search, p.filterType, p.filterModel, p.filterMarket>>

C25_WitnessModel ==
    /\ feedbacksPage.filterModel # NoFilter
    /\ feedbacksPage.page = 2
    /\ paginatedFeedbacks # <<>>



----------------------------------------------------------------------------
\* Properties of the upload page

\* a response of the server has arrived
Responded == response \in {"ok", "unparsable", "error"}

\* a bound on the steps an upload under way still has before it: the
\* records to anonymize (each may add a document), the documents to index,
\* the start of the rebuild, the swap and the response
StepsLeft ==
    CASE ingest_pc = "anonymizing" ->
            2 * (Len(batch) - Len(results)) + Cardinality(Documents) + 3
      [] ingest_pc = "building" ->
            Cardinality(Documents \ DOMAIN staged) + 2
      [] ingest_pc = "done" -> 1
      [] OTHER -> 0

\* the upload under way is not stuck
CanProceed ==
    CASE ingest_pc = "anonymizing" ->
            Len(results) < Len(batch) \/ ENABLED StartRebuild
      [] ingest_pc = "building" -> ENABLED (IndexDocument \/ SwapIndex)
      [] ingest_pc = "done" -> ENABLED (UploadResponse \/ UploadFailure)
      [] OTHER -> FALSE

\* C29: upload lifecycle. handleUpload first clears the PII matches and the
\* result of the upload before; while the request is under way the
\* progress stays within 0..90, and it is 100 only after a response of the
\* server arrived; the upload ends on every path (ok, error response,
\* failed request, body that does not parse) with uploading false and a
\* result that is not null, whose success is true only if the server
\* answered ok; the PII matches on display afterwards are those of that
\* upload. That it ends is stated for finite runs: an upload under way
\* can always proceed, and each step either leaves fewer steps or moves
\* the progress bar, which stops at 90.
C29_UploadLifecycle ==
    /\ [](uploading =>
            /\ result = NoResult
            /\ piiMatches = <<>>
            /\ response = "none"
            /\ progress \in 0..ProgressCap)
    /\ [](progress \in 0..ProgressCap \cup {ProgressDone})
    /\ [](progress = ProgressDone => (~uploading /\ Responded))
    /\ []((~uploading /\ runs > 0) =>
            /\ result.shown
            /\ response # "none"
            /\ result.success => response = "ok"
            /\ Responded => progress = ProgressDone
            /\ piiMatches \in {<<>>, pii_detected(results)}
            /\ piiMatches # <<>> => response = "ok")
    /\ [][(~uploading /\ uploading') =>
            (progress' = 0 /\ piiMatches' = <<>> /\ result' = NoResult)]_vars
    /\ [](uploading => (StepsLeft > 0 /\ CanProceed))
    /\ [](~uploading => StepsLeft = 0)
    /\ [][uploading =>
            \/ StepsLeft' < StepsLeft
            \/ StepsLeft' = StepsLeft /\ progress' > progress]_vars

\* the second upload succeeded and shows its own PII matches
C29_Witness ==
    /\ ~uploading
    /\ runs = 2
    /\ result.success
    /\ progress = ProgressDone
    /\ piiMatches # <<>>
    /\ piiMatches = pii_detected(results)

\* an upload whose request failed half way through the progress bar
C29_WitnessFailed ==
    /\ ~uploading
    /\ response = "failed"
    /\ result.shown /\ ~result.success
    /\ progress \in ProgressStep..ProgressCap

====
